---- MODULE Spec2Model ----
(***************************************************************************)
(* Model of the agent control loop of src/index.mjs: runAIAgent,           *)
(* makeAIRequest, executeFunctions, the functionMap dispatch table and the *)
(* handlers dynamicSupabaseOperation, setSpecialization,                   *)
(* synthesizeKnowledge and retrieveRelevantKnowledge, over a small table   *)
(* store.                                                                  *)
(*                                                                         *)
(* JavaScript values are encoded with one shape per kind so that TLC can   *)
(* compare them: a message is a string, `undefined`/`null` are the kinds   *)
(* "undefined"/"null" of a tagged record.                                  *)
(***************************************************************************)
EXTENDS Integers, Sequences, FiniteSets, TLC

VARIABLES
    pc,                            \* position of runAIAgent / makeAIRequest / executeFunctions
    iterations,                    \* runAIAgent: let iterations
    conversationHistory,           \* runAIAgent: let conversationHistory
    prompt,                        \* the fullAgentPrompt of the current round
    retryCount,                    \* makeAIRequest: let retryCount
    lastError,                     \* makeAIRequest: let lastError
    delay,                         \* makeAIRequest: the delay being waited, 0 when none
    requestsSent,                  \* fetch calls made by the makeAIRequest call in progress or just returned
    aiResponse,                    \* runAIAgent: const aiResponse
    rawReply,                      \* makeAIRequest: const rawReply, where its text is followed
    functionCalls,                 \* executeFunctions: parameter functionCalls
    callIdx,                       \* executeFunctions: position of the for loop (1-based)
    results,                       \* executeFunctions: const results
    callTrace,                     \* per executed call: what was invoked, store operations issued
    batchesDispatched,             \* executeFunctions calls made by this invocation
    currentSpecialization,         \* module-level let currentSpecialization
    specializationInstructionText, \* module-level let specializationInstructionText
    shopping_list,                 \* store: rows of table shopping_list
    nextId,                        \* store: next generated id
    storeFaults,                   \* store operations that returned an error so far
    knowledge_snippets,            \* store: rows of table knowledge_snippets
    interactions,                  \* store: rows of table interactions
    returned,                      \* the value runAIAgent returned
    fault,                         \* the exception that escaped runAIAgent
    invocations                    \* calls of runAIAgent this process has been given

vars == <<pc, iterations, conversationHistory, prompt, retryCount, lastError, delay,
          requestsSent, aiResponse, rawReply, functionCalls, callIdx, results, callTrace,
          batchesDispatched, currentSpecialization, specializationInstructionText,
          shopping_list, nextId, storeFaults, knowledge_snippets, interactions,
          returned, fault, invocations>>

-----------------------------------------------------------------------------
(* Bounds and program constants *)

\* store operations that may return an error during one invocation, or during a
\* call run on its own
MaxStoreFaults == 1

\* store operations that may return an error during an invocation followed to its
\* end under fairness
MaxFairFaults == 0

\* runAIAgent: const MAX_ITERATIONS = 5
MAX_ITERATIONS == 5

\* makeAIRequest: const MAX_RETRIES = 5
MAX_RETRIES == 5

-----------------------------------------------------------------------------
(* JavaScript values *)

NoMessage == ""

Undefined == [kind |-> "undefined", rows |-> <<>>, text |-> ""]
Null      == [kind |-> "null", rows |-> <<>>, text |-> ""]
Rows(r)   == [kind |-> "rows", rows |-> r, text |-> ""]
Text(t)   == [kind |-> "text", rows |-> <<>>, text |-> t]
\* an object that is not an array (a handler result, a parameters object)
Obj(t)    == [kind |-> "object", rows |-> <<>>, text |-> t]

\* JavaScript truthiness of a value: arrays and objects are truthy, also when empty
Truthy(v) ==
    CASE v.kind = "undefined" -> FALSE
      [] v.kind = "null"      -> FALSE
      [] v.kind = "text"      -> v.text # ""
      [] OTHER                -> TRUE

NoParams == [none |-> TRUE]

\* an object carrying a data array, {data: [...]}
Wrapped(r) == [kind |-> "wrapped", rows |-> r, text |-> ""]
False      == [kind |-> "false", rows |-> <<>>, text |-> ""]

-----------------------------------------------------------------------------
(* JavaScript property lookup on an object literal: an own key, else what the
   literal inherits from Object.prototype *)

\* inherited properties that are functions
ObjectPrototypeFunctions ==
    {"constructor", "toString", "toLocaleString", "valueOf",
     "hasOwnProperty", "isPrototypeOf", "propertyIsEnumerable"}

\* inherited properties that are truthy but not callable
ObjectPrototypeObjects == {"__proto__"}

\* obj[key] for an object literal with own keys `own`
Lookup(own, key) ==
    CASE key \in own                      -> "own"
      [] key \in ObjectPrototypeFunctions -> "inherited function"
      [] key \in ObjectPrototypeObjects   -> "inherited object"
      [] OTHER                            -> "undefined"

\* what obj[key](arg) returns for an inherited function, `self` naming obj
InheritedCall(key, self) ==
    CASE key \in {"toString", "toLocaleString"} -> Text("[object Object]")
      [] key = "constructor"                    -> Obj("parameters")
      [] key = "valueOf"                        -> Obj(self)
      [] OTHER                                  -> False

-----------------------------------------------------------------------------
(* The store: table shopping_list *)

\* what the store answers to one awaited query
StoreError == "store error"

\* the row the store creates for inserted data
NewRow(data, id) == [id |-> id, description |-> data.description, status |-> data.status]

\* an insert that has not reached the table when the next call runs
InsertRow_NotApplied(table, data, id) == table

\* the table after query.insert(data) has been awaited
InsertRow(table, data, id) == Append(table, NewRow(data, id))

-----------------------------------------------------------------------------
(* Text: strings as the characters they are made of *)

\* the characters of the strings that text operations of the model take apart
Chars(s) ==
    CASE s = ""          -> <<>>
      [] s = "Apples"    -> <<"A", "p", "p", "l", "e", "s">>
      [] s = "Pears"     -> <<"P", "e", "a", "r", "s">>
      [] s = "Milk"      -> <<"M", "i", "l", "k">>
      [] s = "Bread"     -> <<"B", "r", "e", "a", "d">>
      [] s = "Eggs"      -> <<"E", "g", "g", "s">>
      [] s = "active"    -> <<"a", "c", "t", "i", "v", "e">>
      [] s = "completed" -> <<"c", "o", "m", "p", "l", "e", "t", "e", "d">>
      [] s = "pear"      -> <<"p", "e", "a", "r">>
      [] s = "apples and pears" ->
            <<"a", "p", "p", "l", "e", "s", " ", "a", "n", "d", " ", "p", "e", "a", "r", "s">>
      [] s = "pp"        -> <<"p", "p">>
      [] s = "EA"        -> <<"E", "A">>
      [] s = "inner"     -> <<"i", "n", "n", "e", "r">>
      [] s = "INNER"     -> <<"I", "N", "N", "E", "R">>
      [] s = "left"      -> <<"l", "e", "f", "t">>
      [] s = "Left"      -> <<"L", "e", "f", "t">>
      [] s = "outer"     -> <<"o", "u", "t", "e", "r">>
      [] s = "in the fruit bowl" ->
            <<"i", "n", " ", "t", "h", "e", " ", "f", "r", "u", "i", "t", " ", "b", "o", "w", "l">>
      [] s = "oat milk" ->
            <<"o", "a", "t", " ", "m", "i", "l", "k">>
      [] s = "ripe in autumn" ->
            <<"r", "i", "p", "e", " ", "i", "n", " ", "a", "u", "t", "u", "m", "n">>
      [] s = "sourdough" ->
            <<"s", "o", "u", "r", "d", "o", "u", "g", "h">>
      [] s = "oat milk with pears" ->
            <<"o", "a", "t", " ", "m", "i", "l", "k", " ", "w", "i", "t", "h", " ", "p", "e", "a", "r", "s">>
      [] s = "pears" ->
            <<"p", "e", "a", "r", "s">>
      [] s = "keep them cool" ->
            <<"k", "e", "e", "p", " ", "t", "h", "e", "m", " ", "c", "o", "o", "l">>
      [] s = "Go to it" ->
            <<"G", "o", " ", "t", "o", " ", "i", "t">>
      [] s = "Pears?" ->
            <<"P", "e", "a", "r", "s", "?">>
      [] s = "milk, PEARS" ->
            <<"m", "i", "l", "k", ",", " ", "P", "E", "A", "R", "S">>
      [] s = "pears milk" ->
            <<"p", "e", "a", "r", "s", " ", "m", "i", "l", "k">>
      [] s = "Pears pears" ->
            <<"P", "e", "a", "r", "s", " ", "p", "e", "a", "r", "s">>
      [] s = "it's ok" ->
            <<"i", "t", "'", "s", " ", "o", "k">>
      [] s = "to-do" ->
            <<"t", "o", "-", "d", "o">>

\* String.prototype.toLowerCase on one character
LowerChar(c) ==
    CASE c = "A" -> "a" [] c = "B" -> "b" [] c = "E" -> "e" [] c = "F" -> "f"
      [] c = "G" -> "g" [] c = "I" -> "i" [] c = "L" -> "l" [] c = "M" -> "m"
      [] c = "N" -> "n" [] c = "P" -> "p" [] c = "R" -> "r" [] c = "S" -> "s"
      [] c = "T" -> "t"
      [] OTHER   -> c

\* String.prototype.toLowerCase
ToLowerCase(t) == [i \in 1..Len(t) |-> LowerChar(t[i])]

RECURSIVE LikeMatch(_, _)
\* the store's LIKE: % stands for any run of characters, _ for any one character
LikeMatch(pattern, t) ==
    IF pattern = <<>> THEN t = <<>>
    ELSE IF Head(pattern) = "%"
    THEN LikeMatch(Tail(pattern), t) \/ (t # <<>> /\ LikeMatch(pattern, Tail(t)))
    ELSE /\ t # <<>>
         /\ Head(pattern) = "_" \/ Head(pattern) = Head(t)
         /\ LikeMatch(Tail(pattern), Tail(t))

\* `%${value}%`
Wildcarded(t) == <<"%">> \o t \o <<"%">>

\* String.prototype.includes
Includes(s, t) == \E k \in 1..(Len(s) - Len(t) + 1) : SubSeq(s, k, k + Len(t) - 1) = t

\* the characters \w of a regular expression that occur in the model's strings
WordChars ==
    {"a", "b", "c", "d", "e", "f", "g", "h", "i", "j", "k", "l", "m", "n", "o", "p", "q",
     "r", "s", "t", "u", "v", "w", "x", "y", "z", "_"}

\* .replace(/[^\w\s]/g, '') of a text in lower case
StripPunctuation(t) == SelectSeq(t, LAMBDA c : c \in WordChars \/ c = " ")

RECURSIVE SplitWords(_, _)
\* .split(/\s+/): `word` is the piece being read; a run of spaces ends it, also
\* when the piece is empty at the start or the end of the text
SplitWords(t, word) ==
    IF t = <<>> THEN <<word>>
    ELSE IF Head(t) # " " THEN SplitWords(Tail(t), Append(word, Head(t)))
    ELSE IF Tail(t) # <<>> /\ Head(Tail(t)) = " " THEN SplitWords(Tail(t), word)
    ELSE <<word>> \o SplitWords(Tail(t), <<>>)

-----------------------------------------------------------------------------
(* dynamicSupabaseOperation *)

\* keys of const actionMap
ActionKeys == {"select", "insert", "update", "delete", "upsert", "join", "search"}

\* case labels of the switch on filter.operator in 'select'
SelectOperators ==
    {"eq", "neq", "gt", "lt", "gte", "lte", "like", "ilike", "in", "contains", "range"}

\* case labels of the switch on filter.operator in 'update'
UpdateOperators == {"eq", "neq", "in"}

\* case labels of the switch on filter.operator in 'delete'
DeleteOperators == {"eq", "in"}

\* case labels of the switch on filter.operator in 'join'
JoinOperators == {"eq"}

\* the case labels of the action's switch on filter.operator
FilterOperators(action) ==
    CASE action = "select" -> SelectOperators
      [] action = "update" -> UpdateOperators
      [] action = "delete" -> DeleteOperators
      [] action = "join"   -> JoinOperators

\* the actions whose function reads params.filters
FilterActions == {"select", "update", "delete", "join"}

\* filter.value: a number, a string, an array of such
Num(n)  == [num |-> n]
Str(s)  == [str |-> s]
List(l) == [list |-> l]

\* columns of shopping_list holding numbers; the others hold text
NumericColumns == {"id"}

\* the store's collation of the text values that are ordered in the model
Collation(s) ==
    CASE s = "Apples" -> 1 [] s = "Bread" -> 2 [] s = "Eggs" -> 3 [] s = "Milk" -> 4
      [] s = "Pears" -> 5 [] s = "active" -> 6 [] s = "completed" -> 7

\* the position of a row's cell in the order of its column
OrderKey(row, column) ==
    IF column \in NumericColumns THEN row[column] ELSE Collation(row[column])

\* the position of a filter value in the order of the column it is compared with
ValueKey(column, v) == IF column \in NumericColumns THEN v.num ELSE Collation(v.str)

\* cell = value, as the store compares a cell of the column with a filter value
CellEquals(row, column, v) ==
    IF column \in NumericColumns THEN row[column] = v.num ELSE row[column] = v.str

\* the store's meaning of one applied filter
FilterMatches(row, filter) ==
    LET column == filter.column
        v      == filter.value
    IN  CASE filter.operator = "eq"    -> CellEquals(row, column, v)
          [] filter.operator = "neq"   -> ~CellEquals(row, column, v)
          [] filter.operator = "gt"    -> OrderKey(row, column) > ValueKey(column, v)
          [] filter.operator = "lt"    -> OrderKey(row, column) < ValueKey(column, v)
          [] filter.operator = "gte"   -> OrderKey(row, column) >= ValueKey(column, v)
          [] filter.operator = "lte"   -> OrderKey(row, column) <= ValueKey(column, v)
          [] filter.operator = "like"  ->
                LikeMatch(Wildcarded(Chars(v.str)), Chars(row[column]))
          [] filter.operator = "ilike" ->
                LikeMatch(ToLowerCase(Wildcarded(Chars(v.str))),
                          ToLowerCase(Chars(row[column])))
          [] filter.operator = "in"    ->
                \E i \in 1..Len(v.list) : CellEquals(row, column, v.list[i])
          [] filter.operator = "range" ->
                /\ OrderKey(row, column) >= ValueKey(column, v.list[1])
                /\ OrderKey(row, column) <= ValueKey(column, v.list[2])

\* a filter the store answers with an error: containment asked of a column that
\* holds neither an array nor a document, a pattern asked of a number
FilterRejected(filter) ==
    \/ filter.operator = "contains"
    \/ filter.operator \in {"like", "ilike"} /\ filter.column \in NumericColumns

\* rows that satisfy some filter instead of every filter
SelectRows_AnyFilter(rows, filters) ==
    SelectSeq(rows, LAMBDA r : \E i \in 1..Len(filters) : FilterMatches(r, filters[i]))

RECURSIVE SelectRows(_, _)
\* the rows that satisfy every filter, in stored order
SelectRows(rows, filters) ==
    IF rows = <<>> THEN <<>>
    ELSE LET rest == SelectRows(Tail(rows), filters)
         IN  IF \A i \in 1..Len(filters) : FilterMatches(Head(rows), filters[i])
             THEN <<Head(rows)>> \o rest
             ELSE rest

\* a handler's return value
Succeeded(data) == [success |-> "true", data |-> data, error |-> NoMessage]
Failed(error)   == [success |-> "false", data |-> Undefined, error |-> error]

\* what a handler call did: its return value, the store afterwards, the store
\* operations it issued
Outcome(res, table, id, ops) == [res |-> res, table |-> table, nextId |-> id, ops |-> ops]

\* the module-level state a handler reads and writes besides the store
Persona(name, text) == [name |-> name, text |-> text]

UnsupportedOperatorError(operator) == "Unsupported filter operator: " \o operator

\* every action going through the switch of 'select'
FiltersThrow_SelectSwitch(params) ==
    \E i \in 1..Len(params.filters) : params.filters[i].operator \notin SelectOperators

\* the forEach over params.filters throws on an operator outside the action's switch
FiltersThrow(params) ==
    \E i \in 1..Len(params.filters) :
        params.filters[i].operator \notin FilterOperators(params.action)

\* the operator the thrown error names: the first one outside the switch
FirstUnsupported(params) ==
    LET supported == FilterOperators(params.action)
        i == CHOOSE k \in 1..Len(params.filters) :
                 /\ params.filters[k].operator \notin supported
                 /\ \A j \in 1..(k - 1) : params.filters[j].operator \in supported
    IN  params.filters[i].operator

\* params[key], and what stands for undefined when the descriptor has no such key
Optional(params, key, undefined) ==
    IF key \in DOMAIN params THEN params[key] ELSE undefined

\* methods of the builder supabase.from(table) returns
TableBuilderMethods == {"select", "insert", "upsert", "update", "delete"}

\* methods of the builder query.select(...) returns
FilterBuilderMethods ==
    {"eq", "neq", "gt", "gte", "lt", "lte", "like", "ilike", "is", "in", "contains",
     "containedBy", "or", "not", "match", "filter", "select", "order", "limit", "range",
     "single", "maybeSingle"}

\* params.pagination when the descriptor has none; -1 stands for a key not given
NotGiven == -1
NoPagination == [limit |-> NotGiven, offset |-> NotGiven]

\* if (params.pagination.limit), if (params.pagination.offset): a number given and not 0
TruthyNumber(n) == n # NotGiven /\ n # 0

\* r1 comes before r2 under the order clauses, the earlier clause deciding first
Before(r1, r2, order) ==
    \E k \in 1..Len(order) :
        /\ \A j \in 1..(k - 1) :
               OrderKey(r1, order[j].column) = OrderKey(r2, order[j].column)
        /\ IF order[k].ascending
           THEN OrderKey(r1, order[k].column) < OrderKey(r2, order[k].column)
           ELSE OrderKey(r1, order[k].column) > OrderKey(r2, order[k].column)

RECURSIVE InsertOrdered(_, _, _)
\* r placed into rows that are in order, ahead of the rows it does not come after
InsertOrdered(r, rows, order) ==
    IF rows = <<>> THEN <<r>>
    ELSE IF Before(Head(rows), r, order)
    THEN <<Head(rows)>> \o InsertOrdered(r, Tail(rows), order)
    ELSE <<r>> \o rows

RECURSIVE OrderRows(_, _)
\* selectQuery.order(...) for each clause: the store's answer in that order, rows
\* the clauses do not tell apart staying in stored order
OrderRows(rows, order) ==
    IF rows = <<>> THEN <<>>
    ELSE InsertOrdered(Head(rows), OrderRows(Tail(rows), order), order)

\* selectQuery.limit(n)
LimitRows(rows, n) == SubSeq(rows, 1, IF n < Len(rows) THEN n ELSE Len(rows))

\* the rows the store answers a 'select' with
SelectAnswer(table, params) ==
    LET order      == Optional(params, "order", <<>>)
        pagination == Optional(params, "pagination", NoPagination)
        ordered    == OrderRows(SelectRows(table, params.filters), order)
    IN  IF TruthyNumber(pagination.limit) THEN LimitRows(ordered, pagination.limit)
        ELSE ordered

\* what 'select' throws before its query is awaited
SelectThrown(params) ==
    LET pagination == Optional(params, "pagination", NoPagination)
    IN  IF FiltersThrow(params) THEN UnsupportedOperatorError(FirstUnsupported(params))
        ELSE IF TruthyNumber(pagination.offset) /\ "offset" \notin FilterBuilderMethods
        THEN "selectQuery.offset is not a function"
        ELSE NoMessage

\* params.data merged into a row: the keys given replace the row's
UpdatedRow(row, data) ==
    [row EXCEPT !.description = IF data.description # "" THEN data.description ELSE @,
                !.status      = IF data.status # "" THEN data.status ELSE @]

\* the table after query.update(updateData) with the filters has been awaited
UpdateRows(table, data, filters) ==
    [i \in 1..Len(table) |->
        IF \A k \in 1..Len(filters) : FilterMatches(table[i], filters[k])
        THEN UpdatedRow(table[i], data)
        ELSE table[i]]

\* the table after query.delete() with the filters has been awaited
DeleteRows(table, filters) ==
    SelectSeq(table, LAMBDA r : ~(\A k \in 1..Len(filters) : FilterMatches(r, filters[k])))

\* params.join when the descriptor has none
NoJoin == [given |-> FALSE, specs |-> <<>>]
Join(specs) == [given |-> TRUE, specs |-> specs]

\* joinSpec.on; "" stands for a key not given
NoOn == [given |-> FALSE, local |-> "", foreign |-> ""]
On(local, foreign) == [given |-> TRUE, local |-> local, foreign |-> foreign]

\* an element of params.join; "" stands for a key not given
JoinSpec(table, on, columns, columnPrefix, type) ==
    [table |-> table, on |-> on, columns |-> columns, columnPrefix |-> columnPrefix,
     type |-> type]

\* the columns read without the default
JoinedColumns_NoDefault(joinSpec) == joinSpec.columns

\* const joinedColumns = joinSpec.columns || '*'
JoinedColumns(joinSpec) == IF joinSpec.columns = "" THEN "*" ELSE joinSpec.columns

\* const joinType = joinSpec.type || 'inner'
JoinType(joinSpec) == IF joinSpec.type = "" THEN "inner" ELSE joinSpec.type

\* `${joinSpec.table}(${joinSpec.on.foreign})`
ForeignKey(joinSpec) == joinSpec.table \o "(" \o joinSpec.on.foreign \o ")"

\* the forEach with a validation that looks at the on clause alone
JoinSpecThrown_TableUnchecked(joinSpec) ==
    IF ~joinSpec.on.given
    THEN "Join specification missing table or on clause"
    ELSE IF joinSpec.columnPrefix # "" /\ JoinedColumns(joinSpec) = "*"
    THEN "Cannot use \"*\" with columnPrefix. Please specify columns explicitly."
    ELSE IF ToLowerCase(Chars(JoinType(joinSpec))) \notin {Chars("inner"), Chars("left")}
    THEN "Unsupported join type: " \o JoinType(joinSpec)
    ELSE NoMessage

\* what the forEach over params.join throws at one joinSpec
JoinSpecThrown(joinSpec) ==
    IF joinSpec.table = "" \/ ~joinSpec.on.given
    THEN "Join specification missing table or on clause"
    ELSE IF joinSpec.columnPrefix # "" /\ JoinedColumns(joinSpec) = "*"
    THEN "Cannot use \"*\" with columnPrefix. Please specify columns explicitly."
    ELSE IF ToLowerCase(Chars(JoinType(joinSpec))) \notin {Chars("inner"), Chars("left")}
    THEN "Unsupported join type: " \o JoinType(joinSpec)
    ELSE NoMessage

\* what 'join' throws before its query is awaited
JoinThrown(params) ==
    LET join == Optional(params, "join", NoJoin)
    IN  IF ~join.given THEN "Missing join parameters for join action"
        ELSE IF \E i \in 1..Len(join.specs) : JoinSpecThrown(join.specs[i]) # NoMessage
        THEN LET i == CHOOSE k \in 1..Len(join.specs) :
                          /\ JoinSpecThrown(join.specs[k]) # NoMessage
                          /\ \A j \in 1..(k - 1) : JoinSpecThrown(join.specs[j]) = NoMessage
             IN  JoinSpecThrown(join.specs[i])
        ELSE IF FiltersThrow(params)
        THEN UnsupportedOperatorError(FirstUnsupported(params))
        ELSE NoMessage

\* the rows the store answers a 'join' with: joinQuery.eq(local, foreignKey), or for
\* 'left' the same or a null cell, holds of them for every joinSpec, and every
\* filter; the embedded columns are not part of the model's rows
JoinAnswer(table, params) ==
    LET join == Optional(params, "join", NoJoin)
    IN  SelectSeq(table, LAMBDA r :
            /\ \A i \in 1..Len(join.specs) :
                   r[join.specs[i].on.local] = ForeignKey(join.specs[i])
            /\ \A k \in 1..Len(params.filters) : FilterMatches(r, params.filters[k]))

\* what 'search' throws before any query is awaited; with a searchTerm it is the
\* call of ilike on the builder of supabase.from(...), whatever the columns
SearchThrown(params) ==
    IF Optional(params, "searchTerm", "") = ""
    THEN "Missing searchTerm parameter for search action"
    ELSE IF "ilike" \notin TableBuilderMethods THEN "query.ilike is not a function"
    ELSE NoMessage

\* what actionMap[params.action]() throws before its query is awaited
Thrown(params) ==
    CASE params.action = "select" -> SelectThrown(params)
      [] params.action = "join"   -> JoinThrown(params)
      [] params.action = "search" -> SearchThrown(params)
      [] params.action \in {"update", "delete"} ->
            IF FiltersThrow(params) THEN UnsupportedOperatorError(FirstUnsupported(params))
            ELSE NoMessage
      [] OTHER -> NoMessage

\* a query the store answers with an error although it is reached
StoreRejects(params) ==
    \/ /\ params.action \in FilterActions
       /\ \E i \in 1..Len(params.filters) : FilterRejected(params.filters[i])
    \/ /\ params.action = "join"
       /\ \E i \in 1..Len(Optional(params, "join", NoJoin).specs) :
              Optional(params, "join", NoJoin).specs[i].on.local \in NumericColumns

UnsupportedActionError(action) == "Unsupported action: " \o action

\* if (!actionMap[params.action]) throw ...
ActionSupported(action) == Lookup(ActionKeys, action) # "undefined"

dynamicSupabaseOperation(params, storeOk, table, id) ==
    IF params.from = "" \/ params.action = ""
    THEN Outcome(Failed("Missing required parameters: \"from\" and \"action\""),
                 table, id, 0)
    ELSE IF ~ActionSupported(params.action)
    THEN Outcome(Failed(UnsupportedActionError(params.action)), table, id, 0)
    ELSE IF Lookup(ActionKeys, params.action) = "inherited object"
    THEN Outcome(Failed("actionMap[params.action] is not a function"), table, id, 0)
    ELSE IF Lookup(ActionKeys, params.action) = "inherited function"
    \* the awaited value has neither data nor error
    THEN Outcome(Succeeded(Undefined), table, id, 0)
    ELSE IF Thrown(params) # NoMessage
    THEN Outcome(Failed(Thrown(params)), table, id, 0)
    ELSE IF ~storeOk \/ StoreRejects(params)
    THEN Outcome(Failed(StoreError), table, id, 1)
    ELSE CASE params.action = "select" ->
                Outcome(Succeeded(Rows(SelectAnswer(table, params))), table, id, 1)
           [] params.action \in {"insert", "upsert"} ->
                Outcome(Succeeded(Null), InsertRow(table, params.data, id), id + 1, 1)
           [] params.action = "update" ->
                Outcome(Succeeded(Null), UpdateRows(table, params.data, params.filters),
                        id, 1)
           [] params.action = "delete" ->
                Outcome(Succeeded(Null), DeleteRows(table, params.filters), id, 1)
           [] params.action = "join" ->
                Outcome(Succeeded(Rows(JoinAnswer(table, params))), table, id, 1)

-----------------------------------------------------------------------------
(* setSpecialization *)

\* let currentSpecialization = null
NULL == "null"

\* rows of table specializations
Specializations ==
    {[name |-> "router", instruction_text |-> "router instructions"],
     [name |-> "secretary", instruction_text |-> "secretary instructions"]}

\* .eq('name', ...).single(): the one matching row, an error when there is not exactly one
SingleMatches(name) == {s \in Specializations : s.name = name}

\* the name assigned and the instruction text left as it was
setSpecialization_NameOnly(params, storeOk, persona) ==
    IF params.specializationName = ""
    THEN [res |-> Failed("Missing required parameter: \"name\""), persona |-> persona, ops |-> 0]
    ELSE IF ~storeOk \/ Cardinality(SingleMatches(params.specializationName)) # 1
    THEN [res |-> Failed("Failed to retrieve specialization."), persona |-> persona, ops |-> 1]
    ELSE LET data == CHOOSE s \in SingleMatches(params.specializationName) : TRUE
         IN  [res     |-> Succeeded(Text("Switched to specialization: " \o data.name)),
              persona |-> Persona(data.name, persona.text),
              ops     |-> 1]

\* returns the handler's return value and the persona afterwards
setSpecialization(params, storeOk, persona) ==
    IF params.specializationName = ""
    THEN [res |-> Failed("Missing required parameter: \"name\""), persona |-> persona, ops |-> 0]
    ELSE IF ~storeOk \/ Cardinality(SingleMatches(params.specializationName)) # 1
    THEN [res |-> Failed("Failed to retrieve specialization."), persona |-> persona, ops |-> 1]
    ELSE LET data == CHOOSE s \in SingleMatches(params.specializationName) : TRUE
         IN  [res     |-> Succeeded(Text("Switched to specialization: " \o data.name)),
              persona |-> Persona(data.name, data.instruction_text),
              ops     |-> 1]

-----------------------------------------------------------------------------
(* synthesizeKnowledge *)

\* params.confidence || 0.7, in tenths
DefaultConfidence == 7

\* .limit(5)
CandidateWindow == 5

\* params.confidence: a number of tenths, or the key not given
NoConfidence == [given |-> FALSE, tenths |-> 0]
Confidence(tenths) == [given |-> TRUE, tenths |-> tenths]

\* params.related_entities when the key is not given, and the object {}: spread
\* over the old map, or taken in place of {}, the two give the same
NoEntities == [k \in {} |-> ""]

\* params.confidence || 0.7
ConfidenceOrDefault(confidence) ==
    IF confidence.given /\ confidence.tenths # 0 THEN confidence.tenths
    ELSE DefaultConfidence

\* the new map taken in place of the old one
Spread_NewOnly(old, new) == new

\* { ...old, ...new }
Spread(old, new) ==
    [k \in DOMAIN old \cup DOMAIN new |-> IF k \in DOMAIN new THEN new[k] ELSE old[k]]

\* a lookup that compares the topics letter for letter
Candidates_CaseSensitive(snippets, topic) ==
    LimitRows(SelectSeq(snippets, LAMBDA r :
                  LikeMatch(Wildcarded(Chars(topic)), Chars(r.topic))),
              CandidateWindow)

\* .select('*').ilike('topic', `%${params.topic}%`).limit(5)
Candidates(snippets, topic) ==
    LimitRows(SelectSeq(snippets, LAMBDA r :
                  LikeMatch(ToLowerCase(Wildcarded(Chars(topic))),
                            ToLowerCase(Chars(r.topic)))),
              CandidateWindow)

\* the id the store gives the next row of a table
NextIdOf(rows) ==
    IF rows = <<>> THEN 1
    ELSE 1 + CHOOSE n \in {rows[i].id : i \in 1..Len(rows)} :
                 \A i \in 1..Len(rows) : rows[i].id <= n

\* the row the store creates for operationData of the create path
NewSnippet(params, id) ==
    [id |-> id, topic |-> params.topic, content |-> params.content,
     source |-> IF params.source # "" THEN params.source ELSE "user_interaction",
     confidence |-> ConfidenceOrDefault(params.confidence),
     related_entities |-> params.related_entities]

\* a row after .update(operationData).eq('id', mostRelevantSnippet.id), where it is
\* the row of that id; last_updated is not part of the model's rows
UpdatedSnippet(row, mostRelevantSnippet, params) ==
    IF row.id # mostRelevantSnippet.id THEN row
    ELSE [row EXCEPT !.content = params.content,
                     !.confidence = ConfidenceOrDefault(params.confidence),
                     !.related_entities =
                         IF DOMAIN params.related_entities # {}
                         THEN Spread(mostRelevantSnippet.related_entities,
                                     params.related_entities)
                         ELSE mostRelevantSnippet.related_entities]

\* the record inserted into table interactions
KnowledgeUpdated(params, operation) ==
    [query |-> IF params.sourceQuery # "" THEN params.sourceQuery
               ELSE "knowledge synthesis",
     response |-> "knowledge updated", topic |-> params.topic, operation |-> operation]

\* what a call of a knowledge handler did: its return value, the two tables
\* afterwards, the store operations it issued
KnowledgeOutcome(res, snippets, log, ops) ==
    [res |-> res, snippets |-> snippets, log |-> log, ops |-> ops]

\* the order the store lists the rows in once the row of an id has been updated:
\* no query of the handlers asks for an order, and the store may keep the row in
\* its place or list the version it has just written after the other rows
Relisted(rows, id, moved) ==
    IF moved
    THEN SelectSeq(rows, LAMBDA r : r.id # id) \o SelectSeq(rows, LAMBDA r : r.id = id)
    ELSE rows

\* faultAt is the store operation of the call that returns an error, 0 when none;
\* moved tells whether the store lists an updated row last afterwards
synthesizeKnowledge(params, faultAt, snippets, log, moved) ==
    IF params.topic = "" \/ params.content = ""
    THEN KnowledgeOutcome(Failed("Missing required parameters: \"topic\" and \"content\""),
                          snippets, log, 0)
    ELSE IF faultAt = 1
    THEN KnowledgeOutcome(Failed(StoreError), snippets, log, 1)
    ELSE LET existingSnippets == Candidates(snippets, params.topic)
             updating == Len(existingSnippets) > 0
             written ==
                 IF updating
                 THEN Relisted([i \in 1..Len(snippets) |->
                                   UpdatedSnippet(snippets[i], existingSnippets[1], params)],
                               existingSnippets[1].id, moved)
                 ELSE Append(snippets, NewSnippet(params, NextIdOf(snippets)))
         IN  IF faultAt = 2
             THEN KnowledgeOutcome(Failed(StoreError), snippets, log, 2)
             ELSE KnowledgeOutcome(
                      Succeeded(Obj(IF updating THEN "Existing knowledge updated"
                                    ELSE "New knowledge created")),
                      written,
                      \* the answer of the insert into interactions is not looked at
                      IF faultAt = 3 THEN log
                      ELSE Append(log, KnowledgeUpdated(params,
                                           IF updating THEN "update" ELSE "insert")),
                      3)

-----------------------------------------------------------------------------
(* retrieveRelevantKnowledge *)

\* the words of the query whatever their length
QueryWords_AnyLength(query) ==
    SelectSeq(SplitWords(StripPunctuation(ToLowerCase(Chars(query))), <<>>),
              LAMBDA word : Len(word) > 0)

\* const queryWords: the query in lower case, without punctuation, split at white
\* space, the words longer than 3 characters
QueryWords(query) ==
    SelectSeq(SplitWords(StripPunctuation(ToLowerCase(Chars(query))), <<>>),
              LAMBDA word : Len(word) > 3)

\* the rows the store answers: .ilike('topic', ...) for the first word and one
\* .or('topic.ilike...,content.ilike...') for each further word, all of which a
\* row has to satisfy
Retrieved(snippets, queryWords) ==
    SelectSeq(snippets, LAMBDA r :
        /\ LikeMatch(Wildcarded(queryWords[1]), ToLowerCase(Chars(r.topic)))
        /\ \A i \in 2..Len(queryWords) :
              \/ LikeMatch(Wildcarded(queryWords[i]), ToLowerCase(Chars(r.topic)))
              \/ LikeMatch(Wildcarded(queryWords[i]), ToLowerCase(Chars(r.content))))

\* the number of words, each counted as often as the query holds it, that a text
\* includes once it is put in lower case
Matches(queryWords, text) ==
    Cardinality({i \in 1..Len(queryWords) :
                    Includes(ToLowerCase(Chars(text)), queryWords[i])})

\* a score that weighs topic and content alike
Score_EqualWeights(snippet, queryWords) ==
    (Matches(queryWords, snippet.topic) + Matches(queryWords, snippet.content))
        * snippet.confidence

\* let score: += 3 per word in the topic, += 1 per word in the content, then
\* *= snippet.confidence; in tenths, as the confidence is
Score(snippet, queryWords) ==
    (3 * Matches(queryWords, snippet.topic) + Matches(queryWords, snippet.content))
        * snippet.confidence

\* { ...snippet, relevance_score: score }
Scored(snippet, queryWords) ==
    [id |-> snippet.id, topic |-> snippet.topic, content |-> snippet.content,
     source |-> snippet.source, confidence |-> snippet.confidence,
     related_entities |-> snippet.related_entities,
     relevance_score |-> Score(snippet, queryWords)]

RECURSIVE InsertByScore(_, _)
\* r placed after the rows whose score is not lower than its own
InsertByScore(r, rows) ==
    IF rows = <<>> THEN <<r>>
    ELSE IF Head(rows).relevance_score >= r.relevance_score
    THEN <<Head(rows)>> \o InsertByScore(r, Tail(rows))
    ELSE <<r>> \o rows

RECURSIVE SortByScore(_)
\* .sort((a, b) => b.relevance_score - a.relevance_score): descending, rows of
\* equal score staying in the order they had
SortByScore(rows) ==
    IF rows = <<>> THEN <<>>
    ELSE InsertByScore(rows[Len(rows)], SortByScore(SubSeq(rows, 1, Len(rows) - 1)))

\* .slice(0, params.limit || 5)
SliceLimit(rows, limit) == LimitRows(rows, IF TruthyNumber(limit) THEN limit ELSE 5)

\* the record inserted into table interactions
KnowledgeRetrieved(params, sortedResults) ==
    [query |-> params.query, response |-> "knowledge retrieved",
     snippets_count |-> Len(sortedResults),
     top_topic |-> IF Len(sortedResults) > 0 THEN sortedResults[1].topic ELSE NULL]

\* faultAt is the store operation of the call that returns an error, 0 when none
retrieveRelevantKnowledge(params, faultAt, snippets, log) ==
    IF params.query = ""
    THEN KnowledgeOutcome(Failed("Missing required parameter: \"query\""), snippets, log, 0)
    ELSE LET queryWords == QueryWords(params.query)
         IN  IF Len(queryWords) = 0
             THEN KnowledgeOutcome(Succeeded(Rows(<<>>)), snippets, log, 0)
             ELSE IF faultAt = 1
             THEN KnowledgeOutcome(Failed(StoreError), snippets, log, 1)
             ELSE LET data == Retrieved(snippets, queryWords)
                      scoredResults == [i \in 1..Len(data) |-> Scored(data[i], queryWords)]
                      sortedResults == SliceLimit(SortByScore(scoredResults), params.limit)
                  IN  KnowledgeOutcome(
                          Succeeded(Rows(sortedResults)),
                          snippets,
                          \* the answer of the insert into interactions is not looked at
                          IF faultAt = 2 THEN log
                          ELSE Append(log, KnowledgeRetrieved(params, sortedResults)),
                          2)

-----------------------------------------------------------------------------
(* executeFunctions *)

\* keys of const functionMap
FunctionKeys ==
    {"dynamicSupabaseOperation", "setSpecialization",
     "synthesizeKnowledge", "retrieveRelevantKnowledge"}

\* the handlers that read and write knowledge_snippets and interactions
KnowledgeFunctions == {"synthesizeKnowledge", "retrieveRelevantKnowledge"}

\* if (!functionMap[functionName]): the call is answered without calling anything
FunctionFound(functionName) == Lookup(FunctionKeys, functionName) # "undefined"

NotFoundError(functionName) == "Function " \o functionName \o " not found"

\* an element of const results
Result(functionName, parameters, success, data, error) ==
    [functionName |-> functionName, parameters |-> parameters,
     success |-> success, data |-> data, error |-> error]

\* result.parameters of a result object built without the key
NoParameters == [defined |-> FALSE, value |-> NoParams]
Parameters(p) == [defined |-> TRUE, value |-> p]

\* the result pushed when functionMap has no such function
NotFoundResult(functionName) ==
    Result(functionName, NoParameters, "undefined", Undefined, NotFoundError(functionName))

\* the catch block's result built without success: false, as the not-found result is
ErrorResult_NoSuccess(functionName, message) ==
    Result(functionName, NoParameters, "undefined", Undefined,
           "Failed to execute function " \o functionName \o ": " \o message)

\* the result pushed by the catch block
ErrorResult(functionName, message) ==
    Result(functionName, NoParameters, "false", Undefined,
           "Failed to execute function " \o functionName \o ": " \o message)

\* const functionResult = {...}: shaping of what the called function returned;
\* `res` is a handler result object
FunctionResult(functionName, parameters, res) ==
    Result(functionName, Parameters(parameters),
           IF res.success # "false" THEN "true" ELSE "false",
           IF Truthy(res.data) THEN res.data ELSE Obj("result"),
           res.error)

\* the same shaping when the called function returned a value that is no handler
\* result (a string, a boolean, functionMap itself, or for constructor the
\* parameters object, which carries no success, data or error key in the calls
\* modelled): success !== false holds, data is the value itself, error is null
FunctionResultOfValue(functionName, parameters, value) ==
    Result(functionName, Parameters(parameters), "true", value, NoMessage)

\* results.unshift(...)
Push_AtFront(rs, result) == <<result>> \o rs

\* results.push(...)
Push(rs, result) == Append(rs, result)

\* one block of readableResults
Block(result) ==
    [functionName |-> result.functionName,
     paramString  |-> result.parameters,
     status       |-> IF result.success = "true" THEN "Success" ELSE "Failed",
     records      |-> IF result.success = "true" /\ result.data.kind = "wrapped"
                      THEN result.data.rows ELSE <<>>,
     data         |-> IF result.success = "true" /\ Truthy(result.data)
                         /\ result.data.kind # "wrapped"
                      THEN result.data ELSE Undefined,
     error        |-> IF result.success = "true" THEN NoMessage ELSE result.error]

\* results.forEach(...): readableResults
Render(rs) == [i \in 1..Len(rs) |-> Block(rs[i])]

\* what executing one element of functionCalls does: the result pushed, the store
\* and persona afterwards, what was invoked and the store operations issued
Executed(result, table, id, persona, invoked, ops) ==
    [result |-> result, table |-> table, nextId |-> id, persona |-> persona,
     invoked |-> invoked, ops |-> ops]

\* the body of the for loop for one well-formed functionCall
ExecuteOne(call, storeOk, table, id, persona) ==
    LET functionName == call.function
        parameters   == call.parameters
        found        == Lookup(FunctionKeys, functionName)
    IN  IF ~FunctionFound(functionName)
        THEN Executed(NotFoundResult(functionName), table, id, persona, "none", 0)
        ELSE IF found = "inherited object"
        THEN Executed(ErrorResult(functionName, "functionMap[functionName] is not a function"),
                      table, id, persona, "none", 0)
        ELSE IF found = "inherited function"
        THEN Executed(FunctionResultOfValue(functionName, parameters,
                                            InheritedCall(functionName, "functionMap")),
                      table, id, persona, "Object.prototype", 0)
        ELSE IF functionName = "dynamicSupabaseOperation"
        THEN LET o == dynamicSupabaseOperation(parameters, storeOk, table, id)
             IN  Executed(FunctionResult(functionName, parameters, o.res),
                          o.table, o.nextId, persona, functionName, o.ops)
        ELSE LET o == setSpecialization(parameters, storeOk, persona)
             IN  Executed(FunctionResult(functionName, parameters, o.res),
                          table, id, o.persona, functionName, o.ops)

-----------------------------------------------------------------------------
(* makeAIRequest *)

\* a sixth attempt: the test made with <=
RetryContinues_OffByOne(count) == count <= MAX_RETRIES

\* while (retryCount < MAX_RETRIES)
RetryContinues(count) == count < MAX_RETRIES

\* rawReply where no text is followed
NoReply == <<>>

\* the delay doubled without the limit of ten seconds
Backoff_Uncapped(count) == 1000 * 2^count

\* Math.min(1000 * 2 ** retryCount, 10000)
Backoff(count) == IF 1000 * 2^count < 10000 THEN 1000 * 2^count ELSE 10000

\* The text of a reply is followed as a sequence of pieces, each standing for a
\* run of characters: "F" the fence ```, "j" the letters json, " " white space,
\* "{" and "}" the braces, "a" a member such as "answer":"done", "k" a key with
\* its colon, "p" other text without fence or brace, "N" the text No response.

\* || "No response"
NoResponseText == <<"N">>

\* .trim()
RECURSIVE Trim(_)
Trim(t) ==
    IF t = <<>> THEN t
    ELSE IF Head(t) = " " THEN Trim(Tail(t))
    ELSE IF t[Len(t)] = " " THEN Trim(SubSeq(t, 1, Len(t) - 1))
    ELSE t

\* if (rawReply.trim() === "No response" || !rawReply)
IsEmptyReply(t) == Trim(t) = NoResponseText \/ t = <<>>

\* indexOf(piece) at or after a position, counted from 1; 0 when there is none
IndexFrom(t, piece, from) ==
    IF \E i \in from..Len(t) : t[i] = piece
    THEN CHOOSE i \in from..Len(t) : t[i] = piece /\ \A j \in from..(i - 1) : t[j] # piece
    ELSE 0

\* lastIndexOf(piece), counted from 1; 0 when there is none
LastIndexOf(t, piece) ==
    IF \E i \in 1..Len(t) : t[i] = piece
    THEN CHOOSE i \in 1..Len(t) : t[i] = piece /\ \A j \in (i + 1)..Len(t) : t[j] # piece
    ELSE 0

\* \s*: the first position at or after from that holds no white space
RECURSIVE SkipSpace(_, _)
SkipSpace(t, from) ==
    IF from <= Len(t) /\ t[from] = " " THEN SkipSpace(t, from + 1) ELSE from

\* rawReply.match(/```(?:json)?\s*([\s\S]*?)```/): whether the leftmost fence is
\* followed by another, and the text captured between the two
CodeBlockMatch(t) ==
    LET open  == IndexFrom(t, "F", 1)
        tag   == IF open > 0 /\ open < Len(t) /\ t[open + 1] = "j" THEN open + 2 ELSE open + 1
        start == SkipSpace(t, tag)
        close == IF open > 0 THEN IndexFrom(t, "F", start) ELSE 0
    IN  IF close > 0
        THEN [matched |-> TRUE, group |-> SubSeq(t, start, close - 1)]
        ELSE [matched |-> FALSE, group |-> <<>>]

\* jsonContent after the test for a code block
Unfenced(t) ==
    IF IndexFrom(t, "F", 1) > 0 /\ CodeBlockMatch(t).matched /\ CodeBlockMatch(t).group # <<>>
    THEN Trim(CodeBlockMatch(t).group)
    ELSE t

\* the text handed to JSON.parse as it is
Narrowed_None(t) == t

\* jsonContent.substring(firstBraceIndex, lastBraceIndex + 1), where both are found
\* and the closing brace comes later
Narrowed(t) ==
    LET firstBraceIndex == IndexFrom(t, "{", 1)
        lastBraceIndex  == LastIndexOf(t, "}")
    IN  IF firstBraceIndex > 0 /\ lastBraceIndex > firstBraceIndex
        THEN SubSeq(t, firstBraceIndex, lastBraceIndex)
        ELSE t

\* JSON.parse accepts the text: of the texts the pieces can make, those that are
\* one object, empty or holding a member or a key followed by an object, with
\* white space anywhere between the pieces
RECURSIVE IsJson(_)
IsJson(t) ==
    LET u == Trim(t)
    IN  /\ Len(u) >= 2
        /\ u[1] = "{"
        /\ u[Len(u)] = "}"
        /\ LET inner == Trim(SubSeq(u, 2, Len(u) - 1))
           IN  \/ inner = <<>>
               \/ inner = <<"a">>
               \/ /\ Len(inner) >= 3
                  /\ inner[1] = "k"
                  /\ IsJson(Tail(inner))

\* the value JSON.parse returns for a text it accepts: the object, which the white
\* space of the text is no part of
JsonParse(t) == [kind |-> "object", json |-> SelectSeq(t, LAMBDA piece : piece # " ")]

\* the message returned under a key other than answer
Diagnostic_NoAnswer(error) ==
    [kind |-> "object", answer |-> Undefined, reasoning |-> Undefined,
     has_function_calls |-> FALSE, function_calls |-> <<>>]

\* the object returned after the loop
Diagnostic(error) ==
    [kind |-> "object",
     answer |-> Text("Error: Failed to communicate with AI service after 5 attempts. Last error: "
                     \o (IF error = "" THEN "Unknown error" ELSE error)),
     reasoning |-> Undefined,
     has_function_calls |-> FALSE,
     function_calls |-> <<>>]

-----------------------------------------------------------------------------
(* runAIAgent *)

\* a sixth round: the test made with <=
LoopContinues_OffByOne(count) == count <= MAX_ITERATIONS

\* while (iterations < MAX_ITERATIONS)
LoopContinues(count) == count < MAX_ITERATIONS

\* the test made without looking at the length of the list
HasFunctionCalls_KeyOnly(response) == response.has_function_calls

\* if (aiResponse.function_calls && aiResponse.function_calls.length > 0)
HasFunctionCalls(response) ==
    response.has_function_calls /\ Len(response.function_calls) > 0

\* reading a property of null throws
ReadThrows(response) == response.kind = "null"

\* an element of conversationHistory
Entry(role, label, reasoning, text, blocks) ==
    [role |-> role, label |-> label, reasoning |-> reasoning, text |-> text, blocks |-> blocks]

UserEntry(userPrompt) == Entry("USER", "", Undefined, Text(userPrompt), <<>>)
\* the entry of a round pushed without the reasoning
FunctionsEntry_NoReasoning(label, reasoning, blocks) ==
    Entry("LLM", label, Undefined, Undefined, blocks)
FunctionsEntry(label, reasoning, blocks) == Entry("LLM", label, reasoning, Undefined, blocks)
FinalEntry(answer) == Entry("LLM", "", Undefined, answer, <<>>)

\* the prompt built without the instructions of the specialization
FullAgentPrompt_BasePersona(persona, history) ==
    [persona |-> Persona("", ""), history |-> history]

\* getInstructionsPrompt(currentSpecialization) + historyText
FullAgentPrompt(persona, history) ==
    [persona |-> IF persona.name # NULL /\ persona.name # ""
                 THEN persona ELSE Persona("", ""),
     history |-> history]

\* currentSpecialization ? currentSpecialization.name : 'none' -- the name is a string
SpecializationField(name) == IF name # NULL /\ name # "" THEN "undefined" ELSE "none"

BudgetAnswer == Text("I couldn't complete your request after 5 agent itterations.")

Returned(answer, history, name) ==
    [answer |-> answer, conversationHistory |-> history,
     specialization |-> SpecializationField(name)]

NotReturned == Returned(Undefined, <<>>, NULL)

-----------------------------------------------------------------------------
(* Inputs: what the completion service may reply *)

NoData == [description |-> "", status |-> ""]

Call(functionName, parameters) ==
    [kind |-> "object", function |-> functionName, parameters |-> parameters]

\* an element of function_calls that is null
NullCall == [kind |-> "null", function |-> "", parameters |-> NoParams]

\* a descriptor with the keys from, action, data and filters, and no other
Operation(from, action, data, filters) ==
    Call("dynamicSupabaseOperation",
         [from |-> from, action |-> action, data |-> data, filters |-> filters])

InsertApples   == Operation("shopping_list", "insert",
                            [description |-> "Apples", status |-> "active"], <<>>)
SelectAll      == Operation("shopping_list", "select", NoData, <<>>)
SelectActive   == Operation("shopping_list", "select", NoData,
                            <<[column |-> "status", operator |-> "eq", value |-> Str("active")]>>)
SelectRegex    == Operation("shopping_list", "select", NoData,
                            <<[column |-> "status", operator |-> "regex", value |-> Str("a")]>>)
Truncate       == Operation("shopping_list", "truncate", NoData, <<>>)
ActionToString == Operation("shopping_list", "toString", NoData, <<>>)
ActionProto    == Operation("shopping_list", "__proto__", NoData, <<>>)
NoAction       == Operation("shopping_list", "", NoData, <<>>)
GetWeather     == Call("getWeather", NoParams)
CallToString   == Call("toString", NoParams)
CallProto      == Call("__proto__", NoParams)
SetSecretary   == Call("setSpecialization", [specializationName |-> "secretary"])
SetGhost       == Call("setSpecialization", [specializationName |-> "ghost"])

\* the function_calls lists a reply may carry
Batches ==
    { <<InsertApples, SelectAll>>,
      <<GetWeather, CallToString, CallProto, Truncate, ActionToString, ActionProto,
        SelectActive>>,
      <<SetSecretary, NoAction, SelectRegex, SetGhost>>,
      <<SelectAll, NullCall, InsertApples>> }

Decision(answer, reasoning, calls) ==
    [kind |-> "object", answer |-> answer, reasoning |-> reasoning,
     has_function_calls |-> TRUE, function_calls |-> calls]

\* the values JSON.parse may return
ParsedReplies ==
    { Decision(Text(""), Text("plan"), b) : b \in Batches }
    \cup { Decision(Text("Your list holds Apples."), Text(""), <<>>),
           \* an object without the keys of a Decision
           [kind |-> "object", answer |-> Undefined, reasoning |-> Undefined,
            has_function_calls |-> FALSE, function_calls |-> <<>>],
           \* the JSON text null
           [kind |-> "null", answer |-> Undefined, reasoning |-> Undefined,
            has_function_calls |-> FALSE, function_calls |-> <<>>] }

UserPrompt == "Add apples to my shopping list"

NoResponse == [kind |-> "none", answer |-> Undefined, reasoning |-> Undefined,
               has_function_calls |-> FALSE, function_calls |-> <<>>]

-----------------------------------------------------------------------------
(* The state machine *)

Init ==
    /\ pc = "loop"
    /\ iterations = 0
    /\ conversationHistory = <<UserEntry(UserPrompt)>>
    /\ prompt = FullAgentPrompt(Persona(NULL, ""), <<>>)
    /\ retryCount = 0
    /\ lastError = ""
    /\ delay = 0
    /\ requestsSent = 0
    /\ aiResponse = NoResponse
    /\ rawReply = NoReply
    /\ functionCalls = <<>>
    /\ callIdx = 1
    /\ results = <<>>
    /\ callTrace = <<>>
    /\ batchesDispatched = 0
    /\ currentSpecialization = NULL
    /\ specializationInstructionText = ""
    /\ shopping_list = <<>>
    /\ nextId = 1
    /\ storeFaults = 0
    /\ knowledge_snippets = <<>>
    /\ interactions = <<>>
    /\ returned = NotReturned
    /\ fault = ""
    /\ invocations = 1

agentVars   == <<iterations, conversationHistory, prompt, returned, fault>>
requestVars == <<retryCount, lastError, delay, requestsSent, aiResponse, rawReply>>
batchVars   == <<functionCalls, callIdx, results, callTrace, batchesDispatched>>
moduleVars  == <<currentSpecialization, specializationInstructionText>>
storeVars   == <<shopping_list, nextId, storeFaults, knowledge_snippets, interactions>>

\* runAIAgent: the loop is entered; the prompt is built and makeAIRequest called
StartIteration ==
    /\ pc = "loop"
    /\ LoopContinues(iterations)
    /\ iterations' = iterations + 1
    /\ prompt' = FullAgentPrompt(Persona(currentSpecialization, specializationInstructionText),
                                 conversationHistory)
    /\ retryCount' = 0
    /\ lastError' = ""
    /\ requestsSent' = 0
    /\ delay' = 0
    /\ aiResponse' = NoResponse
    /\ pc' = "request"
    /\ UNCHANGED <<conversationHistory, returned, fault, batchVars, moduleVars, storeVars,
                   rawReply, invocations>>

\* runAIAgent: the loop is left; the budget-exhausted result is returned
BudgetExhausted ==
    /\ pc = "loop"
    /\ ~LoopContinues(iterations)
    /\ returned' = Returned(BudgetAnswer, conversationHistory, currentSpecialization)
    /\ pc' = "done"
    /\ UNCHANGED <<iterations, conversationHistory, prompt, fault, requestVars, batchVars,
                   moduleVars, storeVars, invocations>>

\* makeAIRequest: fetch or response.json() throws (outer catch)
FetchFails ==
    /\ pc = "request"
    /\ requestsSent' = requestsSent + 1
    /\ retryCount' = retryCount + 1
    /\ lastError' = "fetch failed"
    /\ IF retryCount' >= MAX_RETRIES
       THEN /\ aiResponse' = Diagnostic(lastError')
            /\ delay' = 0
            /\ pc' = "decided"
       ELSE /\ delay' = Backoff(retryCount')
            /\ pc' = "backoff"
            /\ UNCHANGED aiResponse
    /\ UNCHANGED <<agentVars, batchVars, moduleVars, storeVars, rawReply, invocations>>

\* an empty reply that is not counted as an attempt
ReplyEmpty_Uncounted ==
    /\ pc = "request"
    /\ delay' = Backoff(retryCount + 1)
    /\ pc' = "backoff"
    /\ UNCHANGED <<retryCount, requestsSent, lastError, aiResponse, agentVars, batchVars,
                   moduleVars, storeVars, rawReply, invocations>>

\* makeAIRequest: the reply has no content, or is "No response"
ReplyEmpty ==
    /\ pc = "request"
    /\ requestsSent' = requestsSent + 1
    /\ retryCount' = retryCount + 1
    /\ delay' = Backoff(retryCount')
    /\ pc' = "backoff"
    /\ UNCHANGED <<lastError, aiResponse, agentVars, batchVars, moduleVars, storeVars,
                   rawReply, invocations>>

\* makeAIRequest: JSON.parse throws (inner catch)
ReplyUnparsable ==
    /\ pc = "request"
    /\ requestsSent' = requestsSent + 1
    /\ retryCount' = retryCount + 1
    /\ lastError' = "Unexpected token"
    /\ delay' = Backoff(retryCount')
    /\ pc' = "backoff"
    /\ UNCHANGED <<aiResponse, agentVars, batchVars, moduleVars, storeVars, rawReply,
                   invocations>>

\* makeAIRequest: the reply parses to one of replies; the parsed value is returned
ReplyParsedFrom(replies) ==
    /\ requestsSent' = requestsSent + 1
    /\ \E reply \in replies : aiResponse' = reply
    /\ retryCount' = 0
    /\ lastError' = ""
    /\ pc' = "decided"
    /\ UNCHANGED <<delay, agentVars, batchVars, moduleVars, storeVars, rawReply,
                   invocations>>

\* makeAIRequest: the reply parses; the parsed value is returned
ReplyParsed ==
    /\ pc = "request"
    /\ ReplyParsedFrom(ParsedReplies)

\* makeAIRequest: the delay has elapsed; the while test is made again
BackoffElapsed ==
    /\ pc = "backoff"
    /\ delay' = 0
    /\ IF RetryContinues(retryCount)
       THEN /\ pc' = "request"
            /\ UNCHANGED aiResponse
       ELSE /\ aiResponse' = Diagnostic(lastError)
            /\ pc' = "decided"
    /\ UNCHANGED <<retryCount, lastError, requestsSent, agentVars, batchVars, moduleVars,
                   storeVars, rawReply, invocations>>

\* runAIAgent: aiResponse.function_calls is read of a value that has no properties
DecisionFault ==
    /\ pc = "decided"
    /\ ReadThrows(aiResponse)
    /\ fault' = "TypeError: Cannot read properties of null (reading 'function_calls')"
    /\ pc' = "thrown"
    /\ UNCHANGED <<iterations, conversationHistory, prompt, returned, requestVars,
                   batchVars, moduleVars, storeVars, invocations>>

\* runAIAgent: the Decision names functions; executeFunctions is called
Dispatch ==
    /\ pc = "decided"
    /\ ~ReadThrows(aiResponse)
    /\ HasFunctionCalls(aiResponse)
    /\ functionCalls' = aiResponse.function_calls
    /\ callIdx' = 1
    /\ results' = <<>>
    /\ callTrace' = <<>>
    /\ batchesDispatched' = batchesDispatched + 1
    /\ requestsSent' = 0
    /\ pc' = "executing"
    /\ UNCHANGED <<agentVars, retryCount, lastError, delay, aiResponse, moduleVars,
                   storeVars, rawReply, invocations>>

\* runAIAgent: no function call; the answer is appended and returned
FinalAnswer ==
    /\ pc = "decided"
    /\ ~ReadThrows(aiResponse)
    /\ ~HasFunctionCalls(aiResponse)
    /\ conversationHistory' = Append(conversationHistory, FinalEntry(aiResponse.answer))
    /\ returned' = Returned(aiResponse.answer, conversationHistory', currentSpecialization)
    /\ pc' = "done"
    /\ UNCHANGED <<iterations, prompt, fault, requestVars, batchVars, moduleVars,
                   storeVars, invocations>>

\* executeFunctions: destructuring an element that is null throws, outside the try
CallFault ==
    /\ pc = "executing"
    /\ callIdx <= Len(functionCalls)
    /\ functionCalls[callIdx].kind = "null"
    /\ fault' = "TypeError: Cannot destructure property 'function' of 'functionCall' as it is null."
    /\ pc' = "thrown"
    /\ UNCHANGED <<iterations, conversationHistory, prompt, returned, requestVars,
                   batchVars, moduleVars, storeVars, invocations>>

\* executeFunctions: one pass of the for loop, for a call of any function but the
\* two handlers of the knowledge store, the store returning an error while fewer
\* than maxFaults of its operations have
ExecuteCallWithin(maxFaults) ==
    /\ callIdx <= Len(functionCalls)
    /\ functionCalls[callIdx].kind = "object"
    /\ functionCalls[callIdx].function \notin KnowledgeFunctions
    /\ \E storeOk \in BOOLEAN :
         LET e == ExecuteOne(functionCalls[callIdx], storeOk, shopping_list, nextId,
                             Persona(currentSpecialization, specializationInstructionText))
         IN  /\ storeOk \/ (e.ops > 0 /\ storeFaults < maxFaults)
             /\ results' = Push(results, e.result)
             /\ callTrace' = Append(callTrace, [invoked |-> e.invoked, ops |-> e.ops])
             /\ shopping_list' = e.table
             /\ nextId' = e.nextId
             /\ storeFaults' = IF storeOk THEN storeFaults ELSE storeFaults + 1
             /\ currentSpecialization' = e.persona.name
             /\ specializationInstructionText' = e.persona.text
    /\ callIdx' = callIdx + 1
    /\ pc' = "executing"
    /\ UNCHANGED <<agentVars, requestVars, functionCalls, batchesDispatched,
                   knowledge_snippets, interactions, invocations>>

\* executeFunctions: one pass of the for loop
ExecuteCall ==
    /\ pc = "executing"
    /\ ExecuteCallWithin(MaxStoreFaults)

\* executeFunctions returns readableResults; runAIAgent appends the entry and loops
FinishBatch ==
    /\ pc = "executing"
    /\ callIdx > Len(functionCalls)
    /\ conversationHistory' =
         Append(conversationHistory,
                FunctionsEntry(currentSpecialization, aiResponse.reasoning, Render(results)))
    /\ pc' = "loop"
    /\ UNCHANGED <<iterations, prompt, returned, fault, requestVars, batchVars, moduleVars,
                   storeVars, invocations>>

Next ==
    \/ StartIteration
    \/ BudgetExhausted
    \/ FetchFails
    \/ ReplyEmpty
    \/ ReplyUnparsable
    \/ ReplyParsed
    \/ BackoffElapsed
    \/ DecisionFault
    \/ Dispatch
    \/ FinalAnswer
    \/ CallFault
    \/ ExecuteCall
    \/ FinishBatch

Spec == Init /\ [][Next]_vars

\* executeFunctions: one pass of the for loop, in an invocation followed to its end
FairExecuteCall ==
    /\ pc = "executing"
    /\ ExecuteCallWithin(MaxFairFaults)

FairNext ==
    \/ StartIteration
    \/ BudgetExhausted
    \/ FetchFails
    \/ ReplyEmpty
    \/ ReplyUnparsable
    \/ ReplyParsed
    \/ BackoffElapsed
    \/ DecisionFault
    \/ Dispatch
    \/ FinalAnswer
    \/ CallFault
    \/ FairExecuteCall
    \/ FinishBatch

\* every completion request, timer and handler call eventually returns
FairSpec == Init /\ [][FairNext]_vars /\ WF_vars(FairNext)

-----------------------------------------------------------------------------
(* handler: runAIAgent called for one event after another in one process *)

\* events one process is followed through
MaxInvocations == 2

SetRouter  == Call("setSpecialization", [specializationName |-> "router"])
\* a call without specializationName
SetNothing == Call("setSpecialization", [specializationName |-> ""])

\* the replies of a conversation that only switches specializations
PersonaReplies ==
    { Decision(Text(""), Text("plan"), <<SetSecretary, SetNothing>>),
      Decision(Text(""), Text("plan"), <<SetRouter, SetGhost>>),
      Decision(Text("Done."), Text(""), <<>>) }

\* makeAIRequest: the reply parses to a Decision of that conversation
PersonaReply ==
    /\ pc = "request"
    /\ ReplyParsedFrom(PersonaReplies)

\* the next event served by a process started for it: the module is loaded anew
Invoke_FreshProcess ==
    /\ pc \in {"done", "thrown"}
    /\ invocations < MaxInvocations
    /\ invocations' = invocations + 1
    /\ pc' = "loop"
    /\ iterations' = 0
    /\ conversationHistory' = <<UserEntry(UserPrompt)>>
    /\ prompt' = FullAgentPrompt(Persona(NULL, ""), <<>>)
    /\ returned' = NotReturned
    /\ fault' = ""
    /\ retryCount' = 0
    /\ lastError' = ""
    /\ delay' = 0
    /\ requestsSent' = 0
    /\ aiResponse' = NoResponse
    /\ functionCalls' = <<>>
    /\ callIdx' = 1
    /\ results' = <<>>
    /\ callTrace' = <<>>
    /\ batchesDispatched' = 0
    /\ storeFaults' = 0
    /\ currentSpecialization' = NULL
    /\ specializationInstructionText' = ""
    /\ UNCHANGED <<rawReply, shopping_list, nextId, knowledge_snippets, interactions>>

\* handler: runAIAgent(userQuery) is called for the next event the process is
\* given; the locals of runAIAgent, makeAIRequest and executeFunctions are those of
\* the new call, the module-level variables and the store are what the call before
\* left
Invoke ==
    /\ pc \in {"done", "thrown"}
    /\ invocations < MaxInvocations
    /\ invocations' = invocations + 1
    /\ pc' = "loop"
    /\ iterations' = 0
    /\ conversationHistory' = <<UserEntry(UserPrompt)>>
    /\ prompt' = FullAgentPrompt(Persona(NULL, ""), <<>>)
    /\ returned' = NotReturned
    /\ fault' = ""
    /\ retryCount' = 0
    /\ lastError' = ""
    /\ delay' = 0
    /\ requestsSent' = 0
    /\ aiResponse' = NoResponse
    /\ functionCalls' = <<>>
    /\ callIdx' = 1
    /\ results' = <<>>
    /\ callTrace' = <<>>
    /\ batchesDispatched' = 0
    /\ storeFaults' = 0
    /\ UNCHANGED <<rawReply, moduleVars, shopping_list, nextId, knowledge_snippets,
                   interactions>>

ProcessNext ==
    \/ StartIteration
    \/ BudgetExhausted
    \/ PersonaReply
    \/ Dispatch
    \/ FinalAnswer
    \/ ExecuteCall
    \/ FinishBatch
    \/ Invoke

ProcessSpec == Init /\ [][ProcessNext]_vars

-----------------------------------------------------------------------------
(* makeAIRequest with the text of the reply followed *)

\* text before the fence or the object: none, prose, prose holding braces
Preambles == {<<>>, <<"p">>, <<"p", "{", "p", "}">>}

\* the opening fence, if any, with what may follow it
Openings == {<<>>, <<"F">>, <<"F", "j">>, <<"F", "j", " ">>, <<"F", " ">>}

\* what stands where the object is expected
Bodies ==
    { <<"{", "a", "}">>, <<"{", "k", " ", "{", "a", "}", "}">>, <<"{", " ", "}">>,
      <<"p", "{", "a", "}", "p">>, <<"{", "a">>, <<"p">>, <<>>, <<"}", "p", "{">>, <<" ">> }

Closings == {<<>>, <<"F">>}

\* text after it: none, prose, prose holding a brace, an object, a second block
Postambles == {<<>>, <<"p">>, <<"p", "}">>, <<"{", "a", "}">>, <<"F", "{", "k", "}", "F">>}

\* the contents a reply of the completion service may have
RawReplies ==
    ({pre \o open \o body \o close \o post :
         pre \in Preambles, open \in Openings, body \in Bodies,
         close \in Closings, post \in Postambles}
     \cup {NoResponseText}) \ {<<>>}

\* makeAIRequest has been called in the first round; the service answers every
\* attempt with the same content
ExtractInit ==
    /\ pc = "request"
    /\ iterations = 1
    /\ conversationHistory = <<UserEntry(UserPrompt)>>
    /\ prompt = FullAgentPrompt(Persona(NULL, ""), conversationHistory)
    /\ retryCount = 0
    /\ lastError = ""
    /\ delay = 0
    /\ requestsSent = 0
    /\ aiResponse = NoResponse
    /\ rawReply \in RawReplies
    /\ functionCalls = <<>>
    /\ callIdx = 1
    /\ results = <<>>
    /\ callTrace = <<>>
    /\ batchesDispatched = 0
    /\ currentSpecialization = NULL
    /\ specializationInstructionText = ""
    /\ shopping_list = <<>>
    /\ nextId = 1
    /\ storeFaults = 0
    /\ knowledge_snippets = <<>>
    /\ interactions = <<>>
    /\ returned = NotReturned
    /\ fault = ""
    /\ invocations = 1

\* makeAIRequest: one pass of the while loop whose fetch is answered with rawReply
ReplyRead ==
    /\ pc = "request"
    /\ requestsSent' = requestsSent + 1
    /\ IF IsEmptyReply(rawReply)
       THEN /\ retryCount' = retryCount + 1
            /\ delay' = Backoff(retryCount')
            /\ pc' = "backoff"
            /\ UNCHANGED <<lastError, aiResponse>>
       ELSE LET jsonContent == Narrowed(Unfenced(rawReply))
            IN  IF IsJson(jsonContent)
                THEN /\ aiResponse' = JsonParse(jsonContent)
                     /\ retryCount' = 0
                     /\ lastError' = ""
                     /\ pc' = "decided"
                     /\ UNCHANGED delay
                ELSE /\ retryCount' = retryCount + 1
                     /\ lastError' = "Unexpected token"
                     /\ delay' = Backoff(retryCount')
                     /\ pc' = "backoff"
                     /\ UNCHANGED aiResponse
    /\ UNCHANGED <<rawReply, agentVars, batchVars, moduleVars, storeVars, invocations>>

ExtractSpec == ExtractInit /\ [][ReplyRead \/ BackoffElapsed]_vars

-----------------------------------------------------------------------------
(* executeFunctions with one descriptor for dynamicSupabaseOperation *)

\* three active rows and two that are not
FiveRows ==
    <<[id |-> 1, description |-> "Apples", status |-> "active"],
      [id |-> 2, description |-> "Milk",   status |-> "completed"],
      [id |-> 3, description |-> "Pears",  status |-> "active"],
      [id |-> 4, description |-> "Bread",  status |-> "completed"],
      [id |-> 5, description |-> "Eggs",   status |-> "active"]>>

\* what table shopping_list may hold when the descriptor arrives
Tables == {<<>>, SubSeq(FiveRows, 1, 2), FiveRows}

Filter(column, operator, value) == [column |-> column, operator |-> operator, value |-> value]

StatusActive == Filter("status", "eq", Str("active"))
Regex        == Filter("status", "regex", Str("a"))

\* one filter for each operator of the vocabulary
OperatorSamples ==
    { StatusActive,
      Filter("status", "neq", Str("active")),
      Filter("id", "gt", Num(2)),
      Filter("id", "lt", Num(5)),
      Filter("id", "gte", Num(2)),
      Filter("description", "lte", Str("Eggs")),
      Filter("description", "like", Str("pp")),
      Filter("description", "ilike", Str("EA")),
      Filter("id", "in", List(<<Num(1), Num(3), Num(4)>>)),
      Filter("status", "contains", Str("active")),
      Filter("id", "range", List(<<Num(2), Num(4)>>)) }

\* the filter lists a descriptor may carry
FilterLists ==
    { <<>>, <<Regex>>, <<StatusActive, Regex>>, <<Regex, StatusActive>>,
      <<StatusActive, Filter("id", "gt", Num(2))>>,
      <<Filter("description", "ilike", Str("EA")), Filter("id", "range", List(<<Num(2), Num(4)>>))>>,
      <<StatusActive, Filter("id", "gt", Num(2)), Filter("status", "neq", Str("active"))>> }
    \cup { <<f>> : f \in OperatorSamples }
    \cup { <<StatusActive, f>> : f \in OperatorSamples }

OrderClause(column, ascending) == [column |-> column, ascending |-> ascending]

\* the order clause lists a descriptor may carry
Orders ==
    { <<>>,
      <<OrderClause("id", FALSE)>>,
      <<OrderClause("description", TRUE)>>,
      <<OrderClause("status", TRUE), OrderClause("id", FALSE)>>,
      <<OrderClause("status", FALSE), OrderClause("description", TRUE)>> }

\* the pagination a descriptor may carry
Paginations == [limit : {NotGiven, 0, 2}, offset : {NotGiven, 0, 1}]

MarkCompleted == [description |-> "", status |-> "completed"]

\* a well-formed element of params.join
ItemsJoin == JoinSpec("items", On("description", "name"), "name,qty", "", "")

\* the elements params.join may carry
JoinSpecs ==
    { ItemsJoin,
      JoinSpec("items", On("description", "name"), "name", "item_", "Left"),
      JoinSpec("items", On("description", "name"), "*", "", "INNER"),
      JoinSpec("", On("description", "name"), "name", "", ""),
      JoinSpec("items", NoOn, "name", "", ""),
      JoinSpec("items", On("description", "name"), "", "item_", ""),
      JoinSpec("items", On("description", "name"), "*", "item_", "left"),
      JoinSpec("items", On("description", "name"), "name", "", "outer"),
      JoinSpec("items", On("id", "list_id"), "name", "", "inner") }

\* the values of params.join
Joins ==
    { NoJoin, Join(<<>>) }
    \cup { Join(<<j>>) : j \in JoinSpecs }
    \cup { Join(<<ItemsJoin, j>>) : j \in JoinSpecs }
    \cup { Join(<<j, ItemsJoin>>) : j \in JoinSpecs }

\* a descriptor of the given action over shopping_list
Descriptor(action, data, filters, order, pagination, join, searchTerm, searchColumns) ==
    Call("dynamicSupabaseOperation",
         [from |-> "shopping_list", action |-> action, data |-> data, filters |-> filters,
          order |-> order, pagination |-> pagination, join |-> join,
          searchTerm |-> searchTerm, searchColumns |-> searchColumns])

\* the descriptors the completion service may ask for
Descriptors ==
    { Descriptor("select", NoData, f, <<>>, NoPagination, NoJoin, "", <<>>) :
          f \in FilterLists }
    \cup { Descriptor("select", NoData, f, o, p, NoJoin, "", <<>>) :
          f \in {<<>>, <<StatusActive>>, <<Regex>>}, o \in Orders, p \in Paginations }
    \cup { Descriptor(a, MarkCompleted, f, <<>>, NoPagination, NoJoin, "", <<>>) :
          a \in {"update", "delete"}, f \in FilterLists }
    \cup { Descriptor("join", NoData, f, <<>>, NoPagination, Join(<<ItemsJoin>>), "", <<>>) :
          f \in FilterLists }
    \cup { Descriptor("join", NoData, f, <<>>, NoPagination, j, "", <<>>) :
          f \in {<<>>, <<StatusActive>>}, j \in Joins }
    \cup { Descriptor("search", NoData, <<>>, <<>>, NoPagination, NoJoin, t, c) :
          t \in {"", "pp"},
          c \in {<<>>, <<"description">>, <<"description", "status">>,
                 <<"status", "description">>} }
    \cup { Descriptor(a, [description |-> "Pears", status |-> "active"], <<>>, <<>>,
                      NoPagination, NoJoin, "", <<>>) : a \in {"insert", "upsert"} }
    \cup { Call("dynamicSupabaseOperation",
                [Descriptor(a, NoData, <<>>, <<>>, NoPagination, NoJoin, "", <<>>).parameters
                    EXCEPT !.from = f]) :
              a \in {"", "select", "truncate"}, f \in {"", "shopping_list"} }

\* executeFunctions has been entered, in the first round, with one descriptor
QueryInit ==
    /\ pc = "executing"
    /\ iterations = 1
    /\ conversationHistory = <<UserEntry(UserPrompt)>>
    /\ prompt = FullAgentPrompt(Persona(NULL, ""), conversationHistory)
    /\ retryCount = 0
    /\ lastError = ""
    /\ delay = 0
    /\ requestsSent = 0
    /\ rawReply = NoReply
    /\ \E d \in Descriptors :
         /\ aiResponse = Decision(Text(""), Text("plan"), <<d>>)
         /\ functionCalls = <<d>>
    /\ callIdx = 1
    /\ results = <<>>
    /\ callTrace = <<>>
    /\ batchesDispatched = 1
    /\ currentSpecialization = NULL
    /\ specializationInstructionText = ""
    /\ shopping_list \in Tables
    /\ nextId = Len(shopping_list) + 1
    /\ storeFaults = 0
    /\ knowledge_snippets = <<>>
    /\ interactions = <<>>
    /\ returned = NotReturned
    /\ fault = ""
    /\ invocations = 1

\* executeFunctions: the one pass of the for loop
ExecuteDescriptor ==
    /\ pc = "executing"
    /\ ExecuteCallWithin(MaxStoreFaults)

QuerySpec == QueryInit /\ [][ExecuteDescriptor]_vars

-----------------------------------------------------------------------------
(* Properties *)

Last(seq) == seq[Len(seq)]

\* C1: whatever the Decisions are, runAIAgent requests at most 5 Decisions and
\* dispatches at most 5 batches; when the 5th Decision still requested function
\* calls and its batch has run, the next step of runAIAgent is to return the
\* fixed budget-exhausted answer, and no error is raised on that path.
C1_IterationBudget ==
    /\ iterations <= 5
    /\ batchesDispatched <= 5
    /\ batchesDispatched <= iterations
    /\ (pc = "loop" /\ batchesDispatched = 5) => (ENABLED BudgetExhausted /\ ~ENABLED StartIteration)
    /\ (pc = "done" /\ batchesDispatched = 5) => (returned.answer = BudgetAnswer /\ fault = "")

\* C1 witness: five batches were dispatched and the budget-exhausted answer returned
C1_Witness ==
    /\ pc = "done"
    /\ iterations = 5
    /\ batchesDispatched = 5
    /\ returned.answer = BudgetAnswer

\* C2: when every request, timer and handler call eventually returns, every
\* invocation whose replies are transport failures, empty replies, unparsable
\* replies or Decisions eventually reaches DONE with a returned result.
C2_EventuallyDone == <>(pc = "done" \/ fault # "")

\* C2 witness: DONE is reached after retries, a failed handler call and
\* several rounds
C2_Witness ==
    /\ pc = "done"
    /\ iterations >= 3
    /\ \E i \in 1..Len(returned.conversationHistory) :
         \E j \in 1..Len(returned.conversationHistory[i].blocks) :
            returned.conversationHistory[i].blocks[j].status = "Failed"
    /\ requestsSent > 1
    /\ Len(returned.conversationHistory) >= 3

\* C3: one call of makeAIRequest sends at most 5 requests; transport failures,
\* empty replies and parse failures count against the one counter; after a
\* failure a further request follows exactly while fewer than 5 were sent; no
\* request follows a reply that parsed.
C3_AtMostFiveRequests ==
    [][ /\ requestsSent' <= 5
        /\ (pc' \in {"request", "backoff"} => requestsSent' = retryCount')
        /\ (pc = "request" => requestsSent' = requestsSent + 1 /\ pc' \in {"backoff", "decided"})
        /\ (pc = "backoff" /\ requestsSent < 5 => pc' = "request")
        /\ (pc = "backoff" /\ requestsSent >= 5 => pc' = "decided")
        /\ (pc = "request" /\ pc' = "decided" /\ requestsSent' < 5
              => aiResponse' \in ParsedReplies)
        /\ (pc = "decided" => pc' # "request" /\ requestsSent' \in {0, requestsSent})
      ]_vars

\* C3 witness: five requests were sent and all failed, the fifth with a transport
\* failure
C3_Witness ==
    /\ pc = "decided"
    /\ requestsSent = 5
    /\ retryCount = 5
    /\ lastError = "fetch failed"

\* C4: when all 5 attempts have failed, makeAIRequest returns a Decision whose
\* answer is a diagnostic message and which requests no function call, without
\* throwing; runAIAgent then ends in that round: it returns that answer, nothing
\* is dispatched and no further Decision is requested.
C4_ExhaustionEndsTheRound ==
    [][ /\ (pc = "backoff" /\ retryCount >= 5 => pc' = "decided")
        /\ (pc' = "decided" /\ retryCount' >= 5
              => /\ aiResponse'.answer.kind = "text"
                 /\ Truthy(aiResponse'.answer)
                 /\ ~HasFunctionCalls(aiResponse')
                 /\ fault' = "")
        /\ (pc = "decided" /\ retryCount >= 5
              => /\ pc' = "done"
                 /\ returned'.answer = aiResponse.answer
                 /\ Last(returned'.conversationHistory) = FinalEntry(aiResponse.answer)
                 /\ batchesDispatched' = batchesDispatched
                 /\ iterations' = iterations)
      ]_vars

\* C4 witness: the run has ended with the diagnostic answer in a round later
\* than the first, after all 5 attempts of that round failed
C4_Witness ==
    /\ pc = "done"
    /\ retryCount = 5
    /\ iterations >= 2
    /\ returned.answer = Diagnostic(lastError).answer
    /\ batchesDispatched = iterations - 1

\* the calls of the batch that have been executed
Executed_i == 1..Len(results)

\* C5: no fault escapes runAIAgent: whatever the completion service replies and
\* whatever the handlers do, runAIAgent never throws, the result it returns
\* carries an answer, and every failed call of a finished batch is a Failed
\* block with its error in the transcript.
C5_NoFaultEscapes ==
    /\ pc # "thrown"
    /\ fault = ""
    /\ (pc = "done" => returned.answer.kind = "text")
    /\ (pc = "loop" /\ results # <<>>
          => \A i \in Executed_i :
                results[i].success # "true"
                  => /\ Last(conversationHistory).blocks[i].status = "Failed"
                     /\ Last(conversationHistory).blocks[i].error # "")

\* C6: the calls of a batch run one at a time in the order given: when call
\* i+1 is executed the results of calls 1..i are there and stay as they are, and
\* the finished batch yields one block per call, in the order of the calls.
C6_SequentialInOrder ==
    [][ /\ (pc' = "executing"
              => /\ Len(results') = callIdx' - 1
                 /\ Len(callTrace') = callIdx' - 1
                 /\ \A i \in 1..Len(results') :
                       /\ results'[i].functionName = functionCalls'[i].function
                       /\ results'[i].parameters.defined
                            => results'[i].parameters.value = functionCalls'[i].parameters)
        /\ (pc = "executing" /\ pc' = "executing"
              => /\ callIdx' = callIdx + 1
                 /\ functionCalls' = functionCalls
                 /\ SubSeq(results', 1, Len(results)) = results)
        /\ (pc = "executing" /\ pc' = "loop"
              => LET blocks == Last(conversationHistory').blocks
                 IN  /\ Len(blocks) = Len(functionCalls)
                     /\ \A i \in 1..Len(blocks) :
                           /\ blocks[i].functionName = functionCalls[i].function
                           /\ blocks[i].paramString = results[i].parameters)
      ]_vars

\* C6 witness: a batch of seven calls has finished with seven blocks
C6_Witness ==
    /\ pc = "loop"
    /\ Len(functionCalls) = 7
    /\ Len(results) = 7
    /\ Len(Last(conversationHistory).blocks) = 7

\* C7: in the batch [insert(Apples), select] in which both calls succeed, the
\* select returns the table with the inserted record as its last row; against
\* an empty shopping_list it returns exactly one record, with description Apples.
C7_SelectSeesInsert ==
    (/\ functionCalls = <<InsertApples, SelectAll>>
     /\ Len(results) = 2
     /\ results[1].success = "true"
     /\ results[2].success = "true")
    => LET rows == results[2].data.rows
       IN  /\ results[2].data.kind = "rows"
           /\ rows # <<>>
           /\ Last(rows).description = "Apples"
           /\ rows = shopping_list
           /\ (Len(shopping_list) = 1 => Len(rows) = 1 /\ rows[1].description = "Apples")

\* C7 witness: the batch has run against the empty shopping_list and the select
\* returned the one record
C7_Witness ==
    /\ functionCalls = <<InsertApples, SelectAll>>
    /\ Len(results) = 2
    /\ results[1].success = "true"
    /\ results[2].success = "true"
    /\ Len(shopping_list) = 1
    /\ results[2].data.rows = <<[id |-> 1, description |-> "Apples", status |-> "active"]>>

\* C8: a call whose function name is none of the four registered handlers
\* invokes nothing and yields a failed result with the error
\* "Function <name> not found"; the batch goes on.
C8_UnknownFunctionNotFound ==
    \A i \in Executed_i :
        functionCalls[i].function \notin FunctionKeys
          => /\ callTrace[i].invoked = "none"
             /\ results[i].success # "true"
             /\ Block(results[i]).status = "Failed"
             /\ results[i].error = NotFoundError(functionCalls[i].function)

\* C9: when the call of a function throws inside executeFunctions, a result with
\* success = false and an error message naming the function is recorded for that
\* call, the loop goes on with the next call, and runAIAgent sees no fault.
C9_ThrowIsCaught ==
    [][ (/\ pc = "executing"
         /\ callIdx <= Len(functionCalls)
         /\ functionCalls[callIdx].kind = "object"
         /\ Lookup(FunctionKeys, functionCalls[callIdx].function) = "inherited object")
        => /\ pc' = "executing"
           /\ fault' = ""
           /\ callIdx' = callIdx + 1
           /\ Len(results') = Len(results) + 1
           /\ results'[callIdx].functionName = functionCalls[callIdx].function
           /\ results'[callIdx].success = "false"
           /\ results'[callIdx].error # ""
           /\ Block(results'[callIdx]).status = "Failed"
      ]_vars

\* C9 witness: a call threw, its failed result was recorded, the later calls of
\* the batch ran and the batch finished
C9_Witness ==
    /\ pc = "loop"
    /\ \E i \in Executed_i :
          /\ functionCalls[i] = CallProto
          /\ results[i].success = "false"
          /\ i < Len(results)
          /\ Last(results).success = "true"
          /\ Last(conversationHistory).blocks[i].status = "Failed"

\* C10: a dynamicSupabaseOperation call whose action is none of select, insert,
\* update, delete, upsert, join, search issues no store operation and returns a
\* failed result whose error names the action; the batch goes on.
C10_UnsupportedActionFails ==
    \A i \in Executed_i :
        (/\ functionCalls[i].function = "dynamicSupabaseOperation"
         /\ functionCalls[i].parameters.action \notin ActionKeys
         /\ functionCalls[i].parameters.action # "")
          => /\ callTrace[i].ops = 0
             /\ results[i].success = "false"
             /\ results[i].error = UnsupportedActionError(functionCalls[i].parameters.action)

-----------------------------------------------------------------------------
(* executeFunctions with one call of synthesizeKnowledge or of
   retrieveRelevantKnowledge *)

\* a stored snippet
Snippet(id, topic, content, confidence, related_entities) ==
    [id |-> id, topic |-> topic, content |-> content, source |-> "user_interaction",
     confidence |-> confidence, related_entities |-> related_entities]

\* what table knowledge_snippets may hold when the call arrives
KnowledgeStores ==
    { <<>>,
      <<Snippet(1, "apples and pears", "in the fruit bowl", 5, [shop |-> "market"])>>,
      <<Snippet(1, "Milk", "oat milk", 9, NoEntities),
        Snippet(2, "Pears", "ripe in autumn", 7, [shop |-> "market", season |-> "autumn"]),
        Snippet(3, "apples and pears", "in the fruit bowl", 5, NoEntities)>>,
      <<Snippet(2, "Bread", "sourdough", 10, NoEntities),
        Snippet(4, "Milk", "oat milk", 3, NoEntities)>>,
      <<Snippet(1, "Pears", "ripe in autumn", 7, NoEntities),
        Snippet(2, "apples and pears", "in the fruit bowl", 5, [shop |-> "market"]),
        Snippet(3, "Milk", "oat milk with pears", 9, NoEntities),
        Snippet(4, "Pears", "pears", 10, NoEntities),
        Snippet(5, "pear", "sourdough", 10, NoEntities),
        Snippet(6, "Pears", "oat milk", 3, NoEntities),
        Snippet(7, "apples and pears", "pears", 0, NoEntities),
        Snippet(8, "Pears", "ripe in autumn", 7, NoEntities)>> }

\* the values params.confidence may have, in tenths, and the key not given
Confidences == {NoConfidence} \cup {Confidence(t) : t \in {-5, 0, 3, 10, 15}}

\* the parameters a call of synthesizeKnowledge may carry
SynthesizeParameters ==
    [topic : {"", "Apples", "pear", "Eggs"},
     content : {"", "keep them cool"},
     source : {"", "conversation"},
     confidence : Confidences,
     related_entities : {NoEntities, [shop |-> "farm"]},
     sourceQuery : {""}]

\* the parameters a call of retrieveRelevantKnowledge may carry
RetrieveParameters ==
    [query : {"", "Go to it", "it's ok", "to-do", "Pears?", "milk, PEARS", "pears milk",
              "Pears pears"},
     limit : {NotGiven, 0, 2, 7}]

\* the calls a batch may hold
KnowledgeCalls ==
    {Call("synthesizeKnowledge", p) : p \in SynthesizeParameters}
    \cup {Call("retrieveRelevantKnowledge", p) : p \in RetrieveParameters}

\* a batch holds one call, or one call of synthesizeKnowledge twice in a row
KnowledgeBatches ==
    {<<call>> : call \in KnowledgeCalls}
    \cup {<<call, call>> : call \in {Call("synthesizeKnowledge", p) : p \in SynthesizeParameters}}

\* executeFunctions has been entered, in the first round, with a batch of calls of
\* synthesizeKnowledge or of retrieveRelevantKnowledge
KnowledgeInit ==
    /\ pc = "executing"
    /\ iterations = 1
    /\ conversationHistory = <<UserEntry(UserPrompt)>>
    /\ prompt = FullAgentPrompt(Persona(NULL, ""), conversationHistory)
    /\ retryCount = 0
    /\ lastError = ""
    /\ delay = 0
    /\ requestsSent = 0
    /\ rawReply = NoReply
    /\ \E batch \in KnowledgeBatches :
         /\ aiResponse = Decision(Text(""), Text("plan"), batch)
         /\ functionCalls = batch
    /\ callIdx = 1
    /\ results = <<>>
    /\ callTrace = <<>>
    /\ batchesDispatched = 1
    /\ currentSpecialization = NULL
    /\ specializationInstructionText = ""
    /\ shopping_list = <<>>
    /\ nextId = 1
    /\ storeFaults = 0
    /\ knowledge_snippets \in KnowledgeStores
    /\ interactions = <<>>
    /\ returned = NotReturned
    /\ fault = ""
    /\ invocations = 1

\* executeFunctions: one pass of the for loop, for a call of synthesizeKnowledge
ExecuteKnowledgeCall ==
    /\ pc = "executing"
    /\ callIdx <= Len(functionCalls)
    /\ functionCalls[callIdx].kind = "object"
    /\ functionCalls[callIdx].function = "synthesizeKnowledge"
    /\ \E faultAt \in 0..3, moved \in BOOLEAN :
         LET o == synthesizeKnowledge(functionCalls[callIdx].parameters, faultAt,
                                      knowledge_snippets, interactions, moved)
         IN  /\ faultAt = 0 \/ (faultAt <= o.ops /\ storeFaults < MaxStoreFaults)
             /\ results' = Push(results,
                                FunctionResult(functionCalls[callIdx].function,
                                               functionCalls[callIdx].parameters, o.res))
             /\ callTrace' = Append(callTrace,
                                    [invoked |-> functionCalls[callIdx].function,
                                     ops |-> o.ops])
             /\ knowledge_snippets' = o.snippets
             /\ interactions' = o.log
             /\ storeFaults' = IF faultAt = 0 THEN storeFaults ELSE storeFaults + 1
    /\ callIdx' = callIdx + 1
    /\ pc' = "executing"
    /\ UNCHANGED <<agentVars, requestVars, functionCalls, batchesDispatched, moduleVars,
                   shopping_list, nextId, invocations>>

\* executeFunctions: one pass of the for loop, for a call of retrieveRelevantKnowledge
ExecuteRetrieveCall ==
    /\ pc = "executing"
    /\ callIdx <= Len(functionCalls)
    /\ functionCalls[callIdx].kind = "object"
    /\ functionCalls[callIdx].function = "retrieveRelevantKnowledge"
    /\ \E faultAt \in 0..2 :
         LET o == retrieveRelevantKnowledge(functionCalls[callIdx].parameters, faultAt,
                                            knowledge_snippets, interactions)
         IN  /\ faultAt = 0 \/ (faultAt <= o.ops /\ storeFaults < MaxStoreFaults)
             /\ results' = Push(results,
                                FunctionResult(functionCalls[callIdx].function,
                                               functionCalls[callIdx].parameters, o.res))
             /\ callTrace' = Append(callTrace,
                                    [invoked |-> functionCalls[callIdx].function,
                                     ops |-> o.ops])
             /\ knowledge_snippets' = o.snippets
             /\ interactions' = o.log
             /\ storeFaults' = IF faultAt = 0 THEN storeFaults ELSE storeFaults + 1
    /\ callIdx' = callIdx + 1
    /\ pc' = "executing"
    /\ UNCHANGED <<agentVars, requestVars, functionCalls, batchesDispatched, moduleVars,
                   shopping_list, nextId, invocations>>

KnowledgeSpec == KnowledgeInit /\ [][ExecuteKnowledgeCall \/ ExecuteRetrieveCall]_vars

-----------------------------------------------------------------------------
(* Properties of the query compiler, under QuerySpec *)

\* the descriptor executeFunctions is about to hand to dynamicSupabaseOperation
Descriptor_p == functionCalls[1].parameters

\* the one call of the batch is about to run, and is a descriptor for a table
RunsDescriptor ==
    /\ pc = "executing"
    /\ callIdx = 1
    /\ functionCalls[1].function = "dynamicSupabaseOperation"
    /\ Descriptor_p.from # ""

\* the one call of the batch has run, and was a descriptor for a table
RanDescriptor ==
    /\ pc = "executing"
    /\ callIdx = 2
    /\ functionCalls[1].function = "dynamicSupabaseOperation"
    /\ Descriptor_p.from # ""

\* the call just made failed with that error, issued no store operation, was made
\* once, and left the table as it was
RejectedUnissued ==
    /\ results'[1].success = "false"
    /\ Len(callTrace') = 1
    /\ callTrace'[1] = [invoked |-> "dynamicSupabaseOperation", ops |-> 0]
    /\ shopping_list' = shopping_list
    /\ nextId' = nextId

\* positions of the filters whose operator the action's switch has no case for
UnsupportedAt(params) ==
    {i \in 1..Len(params.filters) :
        params.filters[i].operator \notin FilterOperators(params.action)}

\* the join parameters pass the checks made before the filters are looked at
JoinWellFormed(params) ==
    /\ params.join.given
    /\ \A i \in 1..Len(params.join.specs) : JoinSpecThrown(params.join.specs[i]) = NoMessage

\* C11: a select, update, delete or join descriptor one of whose filters, first or
\* not, has an operator the action does not support is answered with a failed
\* result carrying the unsupported-filter-operator error for the first such filter
\* (for a join, when its join parameters are well formed); no store operation is
\* issued, the call is made once, and the table is unchanged.
C11_UnsupportedOperatorRejected ==
    [][ (RunsDescriptor /\ Descriptor_p.action \in FilterActions
            /\ UnsupportedAt(Descriptor_p) # {})
        => /\ RejectedUnissued
           /\ (Descriptor_p.action = "join" => JoinWellFormed(Descriptor_p))
              => \E i \in UnsupportedAt(Descriptor_p) :
                    /\ \A j \in UnsupportedAt(Descriptor_p) : i <= j
                    /\ results'[1].error =
                         UnsupportedOperatorError(Descriptor_p.filters[i].operator) ]_vars

\* C11 witness: an update whose second filter is the unsupported one has been
\* answered with the error, the five rows untouched.
C11_Witness ==
    /\ RanDescriptor
    /\ Descriptor_p.action = "update"
    /\ Descriptor_p.filters = <<StatusActive, Regex>>
    /\ results[1].success = "false"
    /\ results[1].error = "Unsupported filter operator: regex"
    /\ callTrace[1].ops = 0
    /\ shopping_list = FiveRows

\* the one call of the batch is about to run, and is for dynamicSupabaseOperation
RunsOperation ==
    /\ pc = "executing"
    /\ callIdx = 1
    /\ functionCalls[1].function = "dynamicSupabaseOperation"

Satisfying(table, filters) ==
    {i \in 1..Len(table) : \A k \in 1..Len(filters) : FilterMatches(table[i], filters[k])}

\* the n-th smallest member of a set of positions
Nth(S, n) == CHOOSE i \in S : Cardinality({j \in S : j < i}) = n - 1

\* the rows at the positions S, in stored order
RowsAt(table, S) == [n \in 1..Cardinality(S) |-> table[Nth(S, n)]]

\* every filter has an operator of the switch of 'select' and is one the store
\* answers
Answerable(filters) ==
    \A k \in 1..Len(filters) :
        filters[k].operator \in SelectOperators /\ ~FilterRejected(filters[k])

\* C13: a select without order clause and without pagination, whose filters the
\* store answers, succeeds unless the store fails, and returns exactly the rows of
\* the table that satisfy every one of its filters, in stored order; the table is
\* unchanged.
C13_SelectReturnsTheMatches ==
    [][ (RunsDescriptor /\ Descriptor_p.action = "select" /\ Descriptor_p.order = <<>>
            /\ Descriptor_p.pagination = NoPagination /\ Answerable(Descriptor_p.filters))
        => /\ storeFaults' = storeFaults => results'[1].success = "true"
           /\ results'[1].success = "true"
              => /\ results'[1].data =
                      Rows(RowsAt(shopping_list,
                                  Satisfying(shopping_list, Descriptor_p.filters)))
                 /\ shopping_list' = shopping_list ]_vars

\* C13 witness: the single filter status eq active over three matching and two
\* other rows has returned exactly the three, in stored order.
C13_Witness ==
    /\ RanDescriptor
    /\ Descriptor_p.action = "select"
    /\ Descriptor_p.filters = <<StatusActive>>
    /\ Descriptor_p.order = <<>>
    /\ Descriptor_p.pagination = NoPagination
    /\ shopping_list = FiveRows
    /\ results[1].success = "true"
    /\ results[1].data.rows = <<FiveRows[1], FiveRows[3], FiveRows[5]>>

\* C14: an update or a delete whose descriptor has no filters is answered with a
\* failed result, and no row of the table is modified or removed.
C14_UpdateDeleteRequireFilters ==
    [][ (RunsDescriptor /\ Descriptor_p.action \in {"update", "delete"}
            /\ Descriptor_p.filters = <<>>)
        => /\ results'[1].success = "false"
           /\ shopping_list' = shopping_list ]_vars

\* C15: in a select, update, delete or join (its join parameters well formed)
\* whose filters all have operators of the vocabulary, no filter is turned down as
\* unsupported.
C15_EveryOperatorEverywhere ==
    [][ (RunsDescriptor /\ Descriptor_p.action \in FilterActions
            /\ (Descriptor_p.action = "join" => JoinWellFormed(Descriptor_p))
            /\ \A k \in 1..Len(Descriptor_p.filters) :
                   Descriptor_p.filters[k].operator \in SelectOperators)
        => \A k \in 1..Len(Descriptor_p.filters) :
               results'[1].error #
                   UnsupportedOperatorError(Descriptor_p.filters[k].operator) ]_vars

\* rows [offset, offset + limit) of the rows given; a key not given stands for
\* offset 0, and for no limit
Slice(rows, pagination) ==
    LET offset == IF pagination.offset = NotGiven THEN 0 ELSE pagination.offset
        last   == IF pagination.limit = NotGiven \/ offset + pagination.limit > Len(rows)
                  THEN Len(rows)
                  ELSE offset + pagination.limit
    IN  SubSeq(rows, offset + 1, last)

\* C16: a select whose filters the store answers succeeds unless the store fails,
\* and returns rows [offset, offset + limit) of the rows that satisfy the filters,
\* sorted by the order clauses in the order listed, for every limit and offset,
\* also when only one of the two is given.
C16_OrderThenPaginate ==
    [][ (RunsDescriptor /\ Descriptor_p.action = "select" /\ Answerable(Descriptor_p.filters)
            /\ storeFaults' = storeFaults)
        => /\ results'[1].success = "true"
           /\ results'[1].data =
                Rows(Slice(OrderRows(RowsAt(shopping_list,
                                            Satisfying(shopping_list, Descriptor_p.filters)),
                                     Descriptor_p.order),
                           Descriptor_p.pagination)) ]_vars

\* a JoinSpec with a columnPrefix and the wildcard projection, given or by default
PrefixWithWildcard(joinSpec) ==
    joinSpec.columnPrefix # "" /\ joinSpec.columns \in {"", "*"}

\* a JoinSpec whose type, when given, is in no letter case inner or left
UnknownJoinType(joinSpec) ==
    /\ joinSpec.type # ""
    /\ ToLowerCase(Chars(joinSpec.type)) \notin {Chars("inner"), Chars("left")}

\* C17: a join one of whose JoinSpecs, wherever in the list, combines a
\* columnPrefix with the wildcard projection or has a type that is neither inner
\* nor left is answered with a failed result, the call made once, no store
\* operation issued, the table unchanged; a join whose JoinSpecs all have table and
\* on clause and neither defect, and whose filters use eq, is issued to the store.
C17_BadJoinSpecRejected ==
    [][ /\ (RunsDescriptor /\ Descriptor_p.action = "join"
               /\ \E i \in 1..Len(Descriptor_p.join.specs) :
                      \/ PrefixWithWildcard(Descriptor_p.join.specs[i])
                      \/ UnknownJoinType(Descriptor_p.join.specs[i]))
           => RejectedUnissued
        /\ (RunsDescriptor /\ Descriptor_p.action = "join" /\ Descriptor_p.join.given
               /\ \A i \in 1..Len(Descriptor_p.join.specs) :
                      /\ Descriptor_p.join.specs[i].table # ""
                      /\ Descriptor_p.join.specs[i].on.given
                      /\ ~PrefixWithWildcard(Descriptor_p.join.specs[i])
                      /\ ~UnknownJoinType(Descriptor_p.join.specs[i])
               /\ \A k \in 1..Len(Descriptor_p.filters) :
                      Descriptor_p.filters[k].operator = "eq")
           => callTrace'[1] = [invoked |-> "dynamicSupabaseOperation", ops |-> 1] ]_vars

\* C17 witness: a join whose second JoinSpec gives a columnPrefix and no columns
\* has been answered with the error, without a store operation.
C17_Witness ==
    /\ RanDescriptor
    /\ Descriptor_p.action = "join"
    /\ Len(Descriptor_p.join.specs) = 2
    /\ Descriptor_p.join.specs[1] = ItemsJoin
    /\ Descriptor_p.join.specs[2].columnPrefix = "item_"
    /\ Descriptor_p.join.specs[2].columns = ""
    /\ results[1].success = "false"
    /\ results[1].error = "Cannot use \"*\" with columnPrefix. Please specify columns explicitly."
    /\ callTrace = <<[invoked |-> "dynamicSupabaseOperation", ops |-> 0]>>
    /\ shopping_list = FiveRows

\* the text of the row's column contains the term, letter case apart
ContainsTerm(row, column, term) ==
    LikeMatch(ToLowerCase(Wildcarded(Chars(term))), ToLowerCase(Chars(row[column])))

\* C18: a search with a searchTerm over given searchColumns succeeds unless the
\* store fails, and returns exactly the rows in which at least one of the columns
\* contains the term, letter case apart.
C18_SearchIsADisjunction ==
    [][ (RunsDescriptor /\ Descriptor_p.action = "search" /\ Descriptor_p.searchTerm # ""
            /\ Descriptor_p.searchColumns # <<>> /\ storeFaults' = storeFaults)
        => /\ results'[1].success = "true"
           /\ results'[1].data =
                Rows(SelectSeq(shopping_list, LAMBDA r :
                        \E c \in 1..Len(Descriptor_p.searchColumns) :
                            ContainsTerm(r, Descriptor_p.searchColumns[c],
                                         Descriptor_p.searchTerm))) ]_vars

-----------------------------------------------------------------------------
(* Properties of synthesizeKnowledge, under KnowledgeSpec *)

\* the parameters of the call executeFunctions is about to hand on
Synthesize_p == functionCalls[1].parameters

\* the snippet of an id among rows
SnippetOf(rows, id) == CHOOSE r \in {rows[i] : i \in 1..Len(rows)} : r.id = id

\* the first call of the batch is about to run, with a topic and a content
RunsSynthesize ==
    /\ pc = "executing"
    /\ callIdx = 1
    /\ functionCalls[1].function = "synthesizeKnowledge"
    /\ Synthesize_p.topic # ""
    /\ Synthesize_p.content # ""

\* the first call of the batch has run, with a topic and a content
RanSynthesize ==
    /\ pc = "executing"
    /\ callIdx = 2
    /\ functionCalls[1].function = "synthesizeKnowledge"
    /\ Synthesize_p.topic # ""
    /\ Synthesize_p.content # ""

\* t occurs in s as a run of consecutive characters
IsSubstring(t, s) ==
    \E k \in 0..(Len(s) - Len(t)) : SubSeq(s, k + 1, k + Len(t)) = t

\* positions of the stored snippets whose topic contains the topic, letter case apart
Containing(snippets, topic) ==
    {i \in 1..Len(snippets) :
        IsSubstring(ToLowerCase(Chars(topic)), ToLowerCase(Chars(snippets[i].topic)))}

\* C19: a call of synthesizeKnowledge adds a snippet only when no stored topic
\* contains the given topic, letter case apart, and a call that succeeds then adds
\* exactly one, with the given topic and content, after the snippets stored;
\* when some stored topic contains it the number of snippets stays, and a call that
\* succeeds has written the content to the first such snippet and to no other.
C19_CreateOnlyWithoutCandidate ==
    [][ RunsSynthesize
        => LET C    == Containing(knowledge_snippets, Synthesize_p.topic)
               n    == Len(knowledge_snippets)
               done == results'[1].success = "true"
           IN  /\ Len(knowledge_snippets') > n => C = {}
               /\ (C = {} /\ done)
                  => /\ Len(knowledge_snippets') = n + 1
                     /\ SubSeq(knowledge_snippets', 1, n) = knowledge_snippets
                     /\ knowledge_snippets'[n + 1].topic = Synthesize_p.topic
                     /\ knowledge_snippets'[n + 1].content = Synthesize_p.content
               /\ C # {}
                  => /\ Len(knowledge_snippets') = n
                     /\ done => \E m \in C :
                           /\ \A i \in C : m <= i
                           /\ {knowledge_snippets'[i].id : i \in 1..n}
                                 = {knowledge_snippets[i].id : i \in 1..n}
                           /\ SnippetOf(knowledge_snippets', knowledge_snippets[m].id).content
                                 = Synthesize_p.content
                           /\ SnippetOf(knowledge_snippets', knowledge_snippets[m].id).topic
                                 = knowledge_snippets[m].topic
                           /\ \A i \in 1..n :
                                  i # m => SnippetOf(knowledge_snippets', knowledge_snippets[i].id)
                                              = knowledge_snippets[i]
      ]_vars

\* C19 witness: topic Apples has been synthesized into a store of three snippets
\* whose third has the topic 'apples and pears': that one holds the new content and
\* there are still three.
C19_Witness ==
    /\ RanSynthesize
    /\ Synthesize_p.topic = "Apples"
    /\ results[1].success = "true"
    /\ results[1].data = Obj("Existing knowledge updated")
    /\ Len(knowledge_snippets) = 3
    /\ knowledge_snippets[3].topic = "apples and pears"
    /\ knowledge_snippets[3].content = Synthesize_p.content
    /\ knowledge_snippets[2].content = "ripe in autumn"

\* the value in [0, 1] nearest to a number of tenths
Clamped(tenths) == IF tenths < 0 THEN 0 ELSE IF tenths > 10 THEN 10 ELSE tenths

\* C20: after a call of synthesizeKnowledge that succeeds, the snippet created or
\* updated holds the confidence provided, clamped into [0, 1] (0 staying 0), and
\* 0.7 when none was provided.
C20_ConfidenceStored ==
    [][ (RunsSynthesize /\ results'[1].success = "true")
        => LET C   == Containing(knowledge_snippets, Synthesize_p.topic)
               row == IF C = {} THEN knowledge_snippets'[Len(knowledge_snippets) + 1]
                      ELSE SnippetOf(knowledge_snippets',
                                     knowledge_snippets[CHOOSE i \in C : \A j \in C : i <= j].id)
           IN  row.confidence =
                   IF Synthesize_p.confidence.given
                   THEN Clamped(Synthesize_p.confidence.tenths)
                   ELSE DefaultConfidence ]_vars

\* C21: a call of synthesizeKnowledge that succeeds on the update path leaves in
\* the first snippet whose topic contains the given one the new content, and as
\* related_entities the old map and the new one merged key by key: the keys of
\* both, a key of the new map with its new value, any other key with its old
\* value; with no related_entities given the old map stays as it was.
C21_UpdateMergesEntities ==
    [][ (RunsSynthesize /\ results'[1].success = "true"
         /\ Containing(knowledge_snippets, Synthesize_p.topic) # {})
        => LET C   == Containing(knowledge_snippets, Synthesize_p.topic)
               m   == CHOOSE i \in C : \A j \in C : i <= j
               old == knowledge_snippets[m].related_entities
               new == Synthesize_p.related_entities
               row == SnippetOf(knowledge_snippets', knowledge_snippets[m].id)
               now == row.related_entities
           IN  /\ row.content = Synthesize_p.content
               /\ DOMAIN now = DOMAIN old \cup DOMAIN new
               /\ \A k \in DOMAIN new : now[k] = new[k]
               /\ \A k \in DOMAIN old \ DOMAIN new : now[k] = old[k]
               /\ DOMAIN new = {} => now = old ]_vars

\* C21 witness: topic pear with {shop: farm} has been synthesized into the store
\* whose second snippet, Pears, held {shop: market, season: autumn}: it holds the
\* new content, the new shop and the old season.
C21_Witness ==
    /\ RanSynthesize
    /\ Synthesize_p.topic = "pear"
    /\ Synthesize_p.related_entities = [shop |-> "farm"]
    /\ results[1].success = "true"
    /\ Len(knowledge_snippets) = 3
    /\ knowledge_snippets[2].topic = "Pears"
    /\ knowledge_snippets[2].content = Synthesize_p.content
    /\ knowledge_snippets[2].related_entities = [shop |-> "farm", season |-> "autumn"]

\* C22: every call of synthesizeKnowledge and every call of
\* retrieveRelevantKnowledge adds exactly one record to table interactions,
\* whatever its parameters and its outcome.
C22_OneAuditRecordPerCall ==
    [][ (pc = "executing" /\ callIdx = 1
         /\ functionCalls[1].function \in KnowledgeFunctions)
        => Len(interactions') = Len(interactions) + 1 ]_vars

\* C39: when a call of synthesizeKnowledge has succeeded and the same call, made
\* again at once, succeeds too, the second call creates no snippet and leaves
\* every stored snippet with the fields the first call left it with.
C39_SecondCallChangesNothing ==
    [][ (/\ pc = "executing"
         /\ callIdx = 2
         /\ callIdx' = 3
         /\ functionCalls[2] = functionCalls[1]
         /\ functionCalls[1].function = "synthesizeKnowledge"
         /\ results[1].success = "true"
         /\ results'[2].success = "true")
        => /\ Len(knowledge_snippets') = Len(knowledge_snippets)
           /\ {knowledge_snippets'[i] : i \in 1..Len(knowledge_snippets')}
                 = {knowledge_snippets[i] : i \in 1..Len(knowledge_snippets)} ]_vars

-----------------------------------------------------------------------------
(* Properties of retrieveRelevantKnowledge, under KnowledgeSpec *)

\* the parameters of the call executeFunctions is about to hand on
Retrieve_p == functionCalls[1].parameters

\* the one call of the batch is about to run, with a query
RunsRetrieve ==
    /\ pc = "executing"
    /\ callIdx = 1
    /\ functionCalls[1].function = "retrieveRelevantKnowledge"
    /\ Retrieve_p.query # ""

\* the one call of the batch has run, with a query
RanRetrieve ==
    /\ pc = "executing"
    /\ callIdx = 2
    /\ functionCalls[1].function = "retrieveRelevantKnowledge"
    /\ Retrieve_p.query # ""

\* the characters of a query that are neither letters nor white space
Punctuation == {"?", ",", "'", "-", "!", "."}

\* the query, its punctuation taken out, holds four characters in a row none of
\* which is a space
HasLongWord(query) ==
    LET t == SelectSeq(Chars(query), LAMBDA c : c \notin Punctuation)
    IN  \E k \in 1..(Len(t) - 3) : \A j \in 0..3 : t[k + j] # " "

\* C23: a call of retrieveRelevantKnowledge whose query, its punctuation
\* stripped, holds no word longer than 3 characters returns success with an
\* empty list and no error.
C23_ShortWordsGiveEmptyList ==
    [][ (RunsRetrieve /\ ~HasLongWord(Retrieve_p.query))
        => /\ results'[1].success = "true"
           /\ results'[1].data = Rows(<<>>)
           /\ results'[1].error = NoMessage ]_vars

\* C23 witness: the query 'Go to it' has been answered with success and an empty
\* list over a store that holds snippets.
C23_Witness ==
    /\ RanRetrieve
    /\ Retrieve_p.query = "Go to it"
    /\ Len(knowledge_snippets) = 8
    /\ results[1].success = "true"
    /\ results[1].data = Rows(<<>>)

\* the words of the query, of which there are n, that the text contains, letter
\* case apart
WordsIn(query, text) ==
    {i \in 1..Len(QueryWords(query)) :
        IsSubstring(QueryWords(query)[i], ToLowerCase(Chars(text)))}

\* the stored snippet a returned row was made of
StoredAs(row) ==
    CHOOSE i \in 1..Len(knowledge_snippets) : knowledge_snippets[i].id = row.id

\* C24: every snippet a call of retrieveRelevantKnowledge returns is a stored one
\* and carries relevance_score = (3 x the query words its topic contains + 1 x
\* the query words its content contains) x its confidence.
C24_RelevanceScore ==
    [][ (RunsRetrieve /\ results'[1].success = "true")
        => \A n \in 1..Len(results'[1].data.rows) :
              LET row == results'[1].data.rows[n]
                  st  == knowledge_snippets[StoredAs(row)]
              IN  /\ \E i \in 1..Len(knowledge_snippets) : knowledge_snippets[i].id = row.id
                  /\ row.topic = st.topic
                  /\ row.content = st.content
                  /\ row.confidence = st.confidence
                  /\ row.relevance_score =
                        (3 * Cardinality(WordsIn(Retrieve_p.query, st.topic))
                         + Cardinality(WordsIn(Retrieve_p.query, st.content)))
                        * st.confidence ]_vars

\* C24 witness: 'pears milk' has returned snippet 6 (topic Pears, content 'oat
\* milk', confidence 0.3) with the score (3 + 1) x 0.3.
C24_Witness ==
    /\ RanRetrieve
    /\ Retrieve_p.query = "pears milk"
    /\ results[1].success = "true"
    /\ Len(results[1].data.rows) = 1
    /\ results[1].data.rows[1].id = 6
    /\ results[1].data.rows[1].relevance_score = 12

\* the scores of the stored snippets the store answers the query with
CandidateScores(query) ==
    LET data == Retrieved(knowledge_snippets, QueryWords(query))
    IN  [i \in 1..Len(data) |->
            (3 * Cardinality(WordsIn(query, data[i].topic))
             + Cardinality(WordsIn(query, data[i].content))) * data[i].confidence]

\* C25: the list a call of retrieveRelevantKnowledge returns for a query with a
\* word longer than 3 characters is in descending order of relevance_score and
\* holds at most limit entries, 5 when no limit is given; no candidate left out
\* scores higher than a returned one.
C25_SortedAndLimited ==
    [][ (RunsRetrieve /\ HasLongWord(Retrieve_p.query) /\ results'[1].success = "true")
        => LET rows   == results'[1].data.rows
               scores == CandidateScores(Retrieve_p.query)
               most   == IF Retrieve_p.limit = NotGiven THEN 5 ELSE Retrieve_p.limit
           IN  /\ \A i \in 1..Len(rows) : \A j \in i..Len(rows) :
                     rows[i].relevance_score >= rows[j].relevance_score
               /\ Len(rows) <= most
               /\ \A i \in 1..Len(rows) :
                     Cardinality({k \in 1..Len(scores) : scores[k] > rows[i].relevance_score})
                        < i ]_vars

\* the stored snippets whose topic or content holds a word of the query and
\* whose score is above zero
Mentioning(query) ==
    {i \in 1..Len(knowledge_snippets) :
        /\ WordsIn(query, knowledge_snippets[i].topic)
              \cup WordsIn(query, knowledge_snippets[i].content) # {}
        /\ knowledge_snippets[i].confidence > 0}

\* C35: when fewer than limit (5 when none is given) stored snippets score above
\* zero, a call of retrieveRelevantKnowledge that succeeds returns every one of
\* them: every stored snippet whose topic or content holds at least one word of
\* the query, whichever word it is and wherever it is found.
C35_EveryMentioningSnippetReturned ==
    [][ (/\ RunsRetrieve
         /\ HasLongWord(Retrieve_p.query)
         /\ results'[1].success = "true"
         /\ Cardinality(Mentioning(Retrieve_p.query))
               < (IF Retrieve_p.limit = NotGiven THEN 5 ELSE Retrieve_p.limit))
        => \A i \in Mentioning(Retrieve_p.query) :
              \E n \in 1..Len(results'[1].data.rows) :
                 results'[1].data.rows[n].id = knowledge_snippets[i].id ]_vars

-----------------------------------------------------------------------------
(* Properties of the transcript, the result and the persona, under Spec *)

\* C26: a reply whose function_calls is empty or absent ends the loop in that
\* round: the next step returns the reply's answer, no batch is dispatched, no
\* handler runs, no further round starts, and nothing happens after the return.
C26_NoCallsEndsTheLoop ==
    [][ /\ (/\ pc = "decided"
            /\ aiResponse.kind = "object"
            /\ ~aiResponse.has_function_calls \/ aiResponse.function_calls = <<>>)
           => /\ pc' = "done"
              /\ returned'.answer = aiResponse.answer
              /\ batchesDispatched' = batchesDispatched
              /\ callTrace' = callTrace
              /\ iterations' = iterations
              /\ requestsSent' = requestsSent
        /\ pc # "done" ]_vars

\* C26 witness: after a round that executed a batch, a reply without any of the
\* keys of a Decision has ended the invocation in the second round, its absent
\* answer returned.
C26_Witness ==
    /\ pc = "done"
    /\ iterations = 2
    /\ batchesDispatched = 1
    /\ aiResponse.kind = "object"
    /\ ~aiResponse.has_function_calls
    /\ aiResponse.answer = Undefined
    /\ returned.answer = Undefined

\* C27: whenever runAIAgent has returned, the last entry of the transcript it
\* returns is the answer it returns.
C27_AnswerIsLastEntry ==
    pc = "done"
    => /\ Len(returned.conversationHistory) > 0
       /\ Last(returned.conversationHistory) = FinalEntry(returned.answer)

\* C28: whenever runAIAgent has returned, the specialization of the result is
\* the name of the Specialization then active, and 'none' when none is.
C28_SpecializationNamed ==
    pc = "done"
    => returned.specialization =
           IF currentSpecialization = NULL THEN "none" ELSE currentSpecialization

\* C29: the transcript starts with the one entry of the user's request; a step
\* leaves it as it is or appends one entry; a round that executes a batch appends
\* exactly one entry, when the batch has ended, holding the reasoning of that
\* round's Decision and one rendered block per call of the batch; the prompt
\* built for a round holds the whole transcript in order.
C29_TranscriptAppendOnly ==
    [][ LET h  == conversationHistory
            h2 == conversationHistory'
        IN  /\ h2[1] = UserEntry(UserPrompt)
            /\ \A i \in 2..Len(h2) : h2[i].role # "USER"
            /\ Len(h2) \in {Len(h), Len(h) + 1}
            /\ SubSeq(h2, 1, Len(h)) = h
            /\ (pc = "executing" /\ pc' = "loop")
               => /\ Len(h2) = Len(h) + 1
                  /\ Last(h2).role = "LLM"
                  /\ Last(h2).reasoning = aiResponse.reasoning
                  /\ Len(Last(h2).blocks) = Len(functionCalls)
                  /\ \A i \in 1..Len(functionCalls) :
                        Last(h2).blocks[i].functionName = functionCalls[i].function
            /\ (pc \in {"request", "backoff", "executing"} /\ pc' # "loop") => h2 = h
            /\ (pc = "decided" /\ pc' = "executing") => h2 = h
            /\ pc' = "loop" => Len(h2) = 1 + batchesDispatched'
            /\ (pc = "loop" /\ pc' = "request")
               => /\ h2 = h
                  /\ prompt'.history = h ]_vars

\* C29 witness: the third round has been entered after two rounds that executed a
\* batch each: the transcript holds the request and one entry per round, with
\* reasoning and blocks, and the prompt holds all three.
C29_Witness ==
    /\ pc = "request"
    /\ iterations = 3
    /\ Len(conversationHistory) = 3
    /\ conversationHistory[2].reasoning = Text("plan")
    /\ Len(conversationHistory[2].blocks) = 2
    /\ Len(conversationHistory[3].blocks) = 4
    /\ prompt.history = conversationHistory

\* positions of the results of the batch that are a setSpecialization that succeeded
Switched == {i \in 1..Len(results) : /\ results[i].functionName = "setSpecialization"
                                      /\ results[i].success = "true"}

\* the instructions stored for the specialization of a name
InstructionsOf(name) == (CHOOSE sp \in Specializations : sp.name = name).instruction_text

\* C30: no step of a batch changes the prompt of the round; the prompt built for
\* the round that follows a batch in which a setSpecialization succeeded names
\* the specialization set last in that batch and holds its instructions.
C30_PersonaFromNextPrompt ==
    [][ /\ pc \in {"decided", "executing"} => prompt' = prompt
        /\ (pc = "loop" /\ pc' = "request" /\ Switched # {})
           => LET i    == CHOOSE k \in Switched : \A j \in Switched : j <= k
                  name == results[i].parameters.value.specializationName
              IN  /\ prompt'.persona.name = name
                  /\ prompt'.persona.text = InstructionsOf(name) ]_vars

\* C30 witness: the first round, whose prompt held no persona, has switched to
\* secretary; the prompt of the second round holds the secretary's instructions.
C30_Witness ==
    /\ pc = "request"
    /\ iterations = 2
    /\ Switched # {}
    /\ conversationHistory[2].label = "secretary"
    /\ prompt.persona = Persona("secretary", "secretary instructions")

-----------------------------------------------------------------------------
(* Properties of the rendered results, the delays and the labels, under Spec *)

\* C31: when a batch has ended, the entry appended holds one block per result, in
\* order; each block names the function and its parameters, reads Success when
\* the result reports success and Failed when it does not, and for a successful
\* result whose data is a list of records it lists those records one by one.
C31_BlocksListRecords ==
    [][ (pc = "executing" /\ pc' = "loop")
        => LET blocks == Last(conversationHistory').blocks
           IN  /\ Len(blocks) = Len(results)
               /\ \A i \in 1..Len(results) :
                     /\ blocks[i].functionName = results[i].functionName
                     /\ blocks[i].paramString = results[i].parameters
                     /\ blocks[i].status =
                            IF results[i].success = "true" THEN "Success" ELSE "Failed"
                     /\ (results[i].success = "true" /\ results[i].data.kind = "rows")
                        => blocks[i].records = results[i].data.rows ]_vars

\* the delay the k-th retry is waited for: the lesser of 1000 * 2^k and 10000
DelayBeforeRetry(k) ==
    CHOOSE d \in {1000 * 2^k, 10000} : d <= 1000 * 2^k /\ d <= 10000

\* C33: whenever makeAIRequest starts to wait, after the k-th failed attempt, the
\* delay is the lesser of 1000 * 2^k and 10000 milliseconds whatever the kind of
\* the failure, at most 10000, and not less than the delay waited before.
C33_BackoffDelay ==
    [][ (pc = "request" /\ pc' = "backoff")
        => /\ retryCount' = retryCount + 1
           /\ delay' = DelayBeforeRetry(retryCount')
           /\ delay' <= 10000
           /\ retryCount > 0 => delay' >= DelayBeforeRetry(retryCount) ]_vars

\* C33 witness: the fourth attempt has failed, the reply being no JSON, after a
\* transport failure or a reply of either kind: 10000 ms are waited, not 16000.
C33_Witness ==
    /\ pc = "backoff"
    /\ retryCount = 4
    /\ requestsSent = 4
    /\ lastError = "Unexpected token"
    /\ delay = 10000

\* C37: the entry appended for a round that executed a batch is labelled with the
\* specialization that was active when the round's prompt was built and its
\* Decision requested.
C37_LabelIsTheRequestingPersona ==
    [][ (pc = "executing" /\ pc' = "loop")
        => LET label == Last(conversationHistory').label
           IN  (IF label = NULL THEN "" ELSE label) = prompt.persona.name ]_vars

\* C38: makeAIRequest starts to wait only when another attempt follows: the
\* attempt that brings the count of failures to MAX_RETRIES is followed at once
\* by the return of the diagnostic object, whatever the kind of the failure.
C38_NoWaitAfterLastAttempt ==
    [][ (pc = "request" /\ retryCount' = MAX_RETRIES)
        => /\ pc' = "decided"
           /\ delay' = 0
           /\ aiResponse' = Diagnostic(lastError') ]_vars

-----------------------------------------------------------------------------
(* Properties of the active specialization, under ProcessSpec *)

\* the name and the text are those of one stored specialization, or both unset
Paired(name, text) ==
    \/ name = NULL /\ text = ""
    \/ \E sp \in Specializations : sp.name = name /\ sp.instruction_text = text

\* C34: no step of runAIAgent other than a handler call of a batch changes the
\* active specialization, and the call of runAIAgent for the next event leaves it
\* as the call before left it: the first prompt of that later call names it and
\* holds its instructions.
C34_SpecializationOutlivesInvocation ==
    [][ /\ pc # "executing" => UNCHANGED moduleVars
        /\ (pc = "loop" /\ pc' = "request" /\ invocations > 1 /\ iterations = 0
             /\ currentSpecialization # NULL)
           => /\ prompt'.persona.name = currentSpecialization
              /\ prompt'.persona.text = InstructionsOf(currentSpecialization) ]_vars

\* C34 witness: the second call of runAIAgent has built its first prompt, before
\* any batch of its own, and the prompt holds the secretary's instructions.
C34_Witness ==
    /\ invocations = 2
    /\ pc = "request"
    /\ iterations = 1
    /\ batchesDispatched = 0
    /\ Len(prompt.history) = 1
    /\ prompt.persona = Persona("secretary", "secretary instructions")

\* C36: the active name and instruction text are always those of one stored
\* specialization, or both unset; a setSpecialization call that fails leaves both
\* as they were, and one that succeeds sets both from the specialization named.
C36_NameAndTextFromOneRecord ==
    [][ /\ Paired(currentSpecialization, specializationInstructionText)
        /\ Paired(currentSpecialization', specializationInstructionText')
        /\ (/\ pc = "executing"
            /\ callIdx' = callIdx + 1
            /\ functionCalls[callIdx].function = "setSpecialization")
           => IF Last(results').success = "true"
              THEN LET name == functionCalls[callIdx].parameters.specializationName
                   IN  /\ currentSpecialization' = name
                       /\ specializationInstructionText' = InstructionsOf(name)
              ELSE UNCHANGED moduleVars ]_vars

\* C36 witness: with the secretary active from an earlier event, a batch has
\* switched to the router and then failed to switch to a specialization that is
\* not stored: the router's name and instructions are both in place.
C36_Witness ==
    /\ invocations = 2
    /\ pc = "executing"
    /\ prompt.persona.name = "secretary"
    /\ Len(results) = 2
    /\ results[1].success = "true"
    /\ results[2].functionName = "setSpecialization"
    /\ results[2].success = "false"
    /\ currentSpecialization = "router"
    /\ specializationInstructionText = "router instructions"

-----------------------------------------------------------------------------
(* Properties of the text of a reply, under ExtractSpec *)

\* positions of the fences of a text
Fences(t) == {i \in 1..Len(t) : t[i] = "F"}

\* what stands between the first fence of a text and the next, the word json that
\* may follow the first fence left out
BlockInterior(t) ==
    LET i    == CHOOSE x \in Fences(t) : \A y \in Fences(t) : x <= y
        j    == CHOOSE x \in Fences(t) \ {i} : \A y \in Fences(t) \ {i} : x <= y
        body == SubSeq(t, i + 1, j - 1)
    IN  IF body # <<>> /\ body[1] = "j" THEN Tail(body) ELSE body

\* the text holds a fenced block that has something in it
HasBlock(t) ==
    /\ Cardinality(Fences(t)) >= 2
    /\ \E n \in 1..Len(BlockInterior(t)) : BlockInterior(t)[n] # " "

\* the interior of the block, or the whole text, from its first { to its last }
Extracted(t) ==
    LET u      == IF HasBlock(t) THEN BlockInterior(t) ELSE t
        opens  == {i \in 1..Len(u) : u[i] = "{"}
        closes == {i \in 1..Len(u) : u[i] = "}"}
    IN  IF opens # {} /\ closes # {}
        THEN LET from == CHOOSE x \in opens : \A y \in opens : x <= y
                 to   == CHOOSE x \in closes : \A y \in closes : x >= y
             IN  IF to > from THEN SubSeq(u, from, to) ELSE u
        ELSE u

\* the objects a text holds between prose without a brace and prose without a
\* brace: one, or none when the text is not of that form
ObjectsInProse(t) ==
    {SubSeq(t, x[1], x[2]) :
        x \in {y \in (2..Len(t)) \X (1..(Len(t) - 1)) :
                  /\ \A i \in 1..(y[1] - 1) : t[i] = "p"
                  /\ \A i \in (y[2] + 1)..Len(t) : t[i] = "p"
                  /\ t[y[1]] = "{"
                  /\ IsJson(SubSeq(t, y[1], y[2]))}}

====
